---- MODULE Spec2Model ----
(***************************************************************************)
(* Model of the entity/transform/hierarchy store (src/src/engine/world.cpp)*)
(* and of the runtime-stream discipline of the animation blend tree        *)
(* (src/src/animation/nodes.cpp).                                          *)
(*                                                                         *)
(* Entities are 0-based indices as in the code; the dense arrays are TLA+  *)
(* sequences, read with At and written with SetAt.                         *)
(*                                                                         *)
(* Transforms are restricted to one axis: pos is the x coordinate, rot is  *)
(* the rotation by 0 (1) or 180 degrees (-1) about a perpendicular axis    *)
(* and scale is a 3-vector with components in {1, -1}.  On this subset the *)
(* engine's Transform product and inverse are exact integer arithmetic.    *)
(***************************************************************************)
EXTENDS Integers, Sequences, FiniteSets, TLC

VARIABLES world, op, crashed, stream, loaded, animator, call, module, scene

vars == <<world, op, crashed, stream, loaded, animator, call, module, scene>>

\* ---- bounds ------------------------------------------------------------
MaxEntities == 3        \* number of entity slots the dense arrays may grow to
MaxSlots == 3           \* number of entity slots in the free-list specification
MaxSerEntities == 2     \* number of entity slots in the save/load specification
MaxTrEntities == 2      \* number of entities in the transform specification
MaxInput == 1           \* positions passed to the transform setters are 0..MaxInput
MaxCoord == 2           \* positions of the world stay within -MaxCoord..MaxCoord
MaxPartEntities == 2    \* number of entity slots in the partition specification
MaxPartitions == 2      \* number of partitions a world may have
MaxStart == 8           \* an AnimationNode is ticked from the stored times 0..MaxStart
MaxHalfTick == 2        \* half of the time delta of a split tick is 1..MaxHalfTick
MaxValue == 3           \* Blend1D child values and inputs are 0..MaxValue halves
MaxChildren == 3        \* a Blend1D node has 1..MaxChildren children
MaxCmpEntities == 2     \* number of entity slots in the component specification
MAX_TYPES_COUNT == 2     \* ComponentType::MAX_TYPES_COUNT, 64 in the engine

INVALID_ENTITY == -1

\* ---- helpers for 0-based arrays -----------------------------------------
At(seq, i) == seq[i + 1]
SetAt(seq, i, v) == [seq EXCEPT ![i + 1] = v]
Size(seq) == Len(seq)
Back(seq) == seq[Len(seq)]
Pop(seq) == SubSeq(seq, 1, Len(seq) - 1)
isValid(e) == e >= 0

\* ---- Transform algebra (engine/math.h, restricted to one axis) -----------
Vec3(s) == <<s, s, s>>
IdentityTransform == [pos |-> 0, rot |-> 1, scale |-> Vec3(1)]

\* Transform::operator* : {rot.rotate(rhs.pos * scale) + pos, rot * rhs.rot, scale * rhs.scale}
TransformMul(a, b) ==
    [pos |-> a.rot * (b.pos * a.scale[1]) + a.pos,
     rot |-> a.rot * b.rot,
     scale |-> <<a.scale[1] * b.scale[1], a.scale[2] * b.scale[2], a.scale[3] * b.scale[3]>>]

\* Transform::inverted : rot = conjugated, pos = rot'.rotate(-pos / scale), scale = 1 / scale
\* (for components in {1,-1}, x / s = x * s and 1 / s = s)
TransformInverted(a) ==
    [pos |-> a.rot * ((0 - a.pos) * a.scale[1]),
     rot |-> a.rot,
     scale |-> a.scale]

\* values an uninitialized Hierarchy::local_transform may hold
GarbageTransforms == {IdentityTransform, [IdentityTransform EXCEPT !.pos = 1]}

\* ---- World construction --------------------------------------------------
\* World::World : empty arrays, no free slot, partition "main" (handle 0) active
NewWorld ==
    [m_entities |-> <<>>,
     m_transforms |-> <<>>,
     m_hierarchy |-> <<>>,
     m_names |-> <<>>,
     m_first_free_slot |-> -1,
     m_partitions |-> <<0>>,
     m_partition_generator |-> 1,
     m_active_partition |-> 0]

\* World::createPartition: the new partition gets the next handle
createPartition(w) ==
    [w EXCEPT !.m_partitions = Append(@, w.m_partition_generator),
              !.m_partition_generator = @ + 1]

setActivePartition(w, partition) == [w EXCEPT !.m_active_partition = partition]

\* World::getPartition(EntityRef)
getPartition(w, entity) == At(w.m_entities, entity).partition

\* value of the fields createEntity leaves unset in a freshly appended record
Indeterminate == -2

hasEntity(w, entity) ==
    entity >= 0 /\ entity < Size(w.m_entities) /\ At(w.m_entities, entity).valid

getTransform(w, entity) == At(w.m_transforms, entity)

getParent(w, entity) ==
    LET idx == At(w.m_entities, entity).hierarchy
    IN IF idx < 0 THEN INVALID_ENTITY ELSE At(w.m_hierarchy, idx).parent

getFirstChild(w, entity) ==
    LET idx == At(w.m_entities, entity).hierarchy
    IN IF idx < 0 THEN INVALID_ENTITY ELSE At(w.m_hierarchy, idx).first_child

getNextSibling(w, entity) ==
    LET idx == At(w.m_entities, entity).hierarchy
    IN IF idx < 0 THEN INVALID_ENTITY ELSE At(w.m_hierarchy, idx).next_sibling

\* ---- createEntity / emplaceEntity ----------------------------------------
createEntity(w, position, rotation) ==
    LET tr == [pos |-> position, rot |-> rotation, scale |-> Vec3(1)]
    IN IF w.m_first_free_slot >= 0
       THEN LET e == w.m_first_free_slot
                data == At(w.m_entities, e)
                ents1 == IF data.next >= 0
                         THEN SetAt(w.m_entities, data.next,
                                    [At(w.m_entities, data.next) EXCEPT !.prev = -1])
                         ELSE w.m_entities
                ents2 == SetAt(ents1, e,
                               [At(ents1, e) EXCEPT !.partition = w.m_active_partition,
                                                    !.name = -1, !.hierarchy = -1,
                                                    !.components = {}, !.valid = TRUE])
            IN [w |-> [w EXCEPT !.m_entities = ents2,
                                !.m_transforms = SetAt(w.m_transforms, e, tr),
                                !.m_first_free_slot = data.next],
                ret |-> e]
       ELSE LET e == Size(w.m_entities)
                data == [valid |-> TRUE, prev |-> Indeterminate, next |-> Indeterminate,
                         name |-> -1, hierarchy |-> -1, components |-> {},
                         partition |-> w.m_active_partition]
            IN [w |-> [w EXCEPT !.m_entities = Append(w.m_entities, data),
                                !.m_transforms = Append(w.m_transforms, tr)],
                ret |-> e]

\* the while loop of emplaceEntity: grow the arrays with free slots until
\* entity.index is addressable
RECURSIVE emplaceGrow(_, _)
emplaceGrow(w, index) ==
    IF Size(w.m_entities) > index THEN w
    ELSE LET data == [valid |-> FALSE, prev |-> -1, next |-> w.m_first_free_slot,
                      name |-> -1, hierarchy |-> -1, components |-> {},
                      partition |-> Indeterminate]
             ents1 == Append(w.m_entities, data)
             ents2 == IF w.m_first_free_slot >= 0
                      THEN SetAt(ents1, w.m_first_free_slot,
                                 [At(ents1, w.m_first_free_slot) EXCEPT !.prev = Size(ents1) - 1])
                      ELSE ents1
         IN emplaceGrow([w EXCEPT !.m_entities = ents2,
                                  !.m_transforms = Append(w.m_transforms,
                                        [IdentityTransform EXCEPT !.scale = Vec3(-1)]),
                                  !.m_first_free_slot = Size(ents1) - 1],
                        index)

\* lines 353-377 of emplaceEntity: take the slot out of the free list of w1,
\* the world the while loop has left
emplaceSlot(w1, entity) ==
    LET d == At(w1.m_entities, entity)
        first1 == IF w1.m_first_free_slot = entity THEN d.next ELSE w1.m_first_free_slot
        ents1 == IF d.prev >= 0
                 THEN SetAt(w1.m_entities, d.prev, [At(w1.m_entities, d.prev) EXCEPT !.next = d.next])
                 ELSE w1.m_entities
        ents2 == IF d.next >= 0
                 THEN SetAt(ents1, d.next, [At(ents1, d.next) EXCEPT !.prev = d.prev])
                 ELSE ents1
        ents3 == SetAt(ents2, entity,
                       [At(ents2, entity) EXCEPT !.name = -1, !.hierarchy = -1,
                                                 !.components = {}, !.valid = TRUE])
    IN [w1 EXCEPT !.m_entities = ents3,
                  !.m_transforms = SetAt(w1.m_transforms, entity, IdentityTransform),
                  !.m_first_free_slot = first1]

\* World::emplaceEntity
emplaceEntity(w, entity) == emplaceSlot(emplaceGrow(w, entity), entity)

\* ---- hierarchy -----------------------------------------------------------
\* depth of recursion / length of a chain walk after which a walk over the
\* hierarchy of a world with n entity slots can only be in a cycle
Fuel(w) == Size(w.m_entities) + 1

\* mutant of isDescendant: only the direct children are compared
isDescendant_childrenOnly(w, ancestor, descendant) ==
    IF \E c \in 0 .. Size(w.m_entities) - 1 :
          At(w.m_entities, c).valid /\ getParent(w, c) = ancestor /\ c = descendant
    THEN "true" ELSE "false"

\* World::isDescendant, iterating childrenOf(ancestor) from child c on.
\* "overflow" is the unbounded recursion the code runs into when the walk
\* enters a cycle before it finds the descendant.
\* line 507 and the next turn of the loop: sub is the result of the
\* recursive call on child e, rest that of the loop over the later children
returnIfFound(sub, rest) == IF sub # "false" THEN sub ELSE rest

RECURSIVE isDescendantFrom(_, _, _, _)
isDescendantFrom(w, c, descendant, fuel) ==
    IF ~isValid(c) THEN "false"
    ELSE IF fuel = 0 THEN "overflow"
    ELSE IF c = descendant THEN "true"
    ELSE returnIfFound(isDescendantFrom(w, getFirstChild(w, c), descendant, fuel - 1),
                       isDescendantFrom(w, getNextSibling(w, c), descendant, fuel - 1))

isDescendant(w, ancestor, descendant) ==
    isDescendantFrom(w, getFirstChild(w, ancestor), descendant, Fuel(w))

\* mutant of collectGarbage: no record is removed
collectGarbage_none(w, entity) == w

\* the lambda collectGarbage of World::setParent
collectGarbage(w, entity) ==
    LET idx == At(w.m_entities, entity).hierarchy
        h == At(w.m_hierarchy, idx)
    IN IF isValid(h.parent) \/ isValid(h.first_child) THEN w
       ELSE LET last == Back(w.m_hierarchy)
                ents1 == SetAt(w.m_entities, last.entity,
                               [At(w.m_entities, last.entity) EXCEPT !.hierarchy = idx])
                ents2 == SetAt(ents1, entity, [At(ents1, entity) EXCEPT !.hierarchy = -1])
            IN [w EXCEPT !.m_entities = ents2,
                         !.m_hierarchy = Pop(SetAt(w.m_hierarchy, idx, last))]

\* mutant of unlinkWalk: the child stays in the chain of its old parent
unlinkWalk_noUnlink(w, holder, field, child, fuel) == [w |-> w, hang |-> FALSE]

\* the unlink loop of World::setParent: x walks the chain that starts at
\* old_parent's first_child; holder is the record index that contains *x
\* (field first_child for the parent itself, next_sibling for a sibling).
\* A chain that leads to an entity without hierarchy record indexes
\* m_hierarchy with -1: the call does not return.
RECURSIVE unlinkWalk(_, _, _, _, _)
unlinkWalk(w, holder, field, child, fuel) ==
    LET x == IF holder < 0 THEN INVALID_ENTITY
             ELSE IF field = "first_child" THEN At(w.m_hierarchy, holder).first_child
             ELSE At(w.m_hierarchy, holder).next_sibling
    IN IF holder < 0 THEN [w |-> w, hang |-> TRUE]
       ELSE IF ~isValid(x) THEN [w |-> w, hang |-> FALSE]
       ELSE IF x = child
       THEN LET nxt == getNextSibling(w, child)
                rec == At(w.m_hierarchy, holder)
                rec1 == IF field = "first_child" THEN [rec EXCEPT !.first_child = nxt]
                        ELSE [rec EXCEPT !.next_sibling = nxt]
            IN [w |-> [w EXCEPT !.m_hierarchy = SetAt(w.m_hierarchy, holder, rec1)],
                hang |-> FALSE]
       ELSE IF fuel = 0 THEN [w |-> w, hang |-> TRUE]
       ELSE unlinkWalk(w, At(w.m_entities, x).hierarchy, "next_sibling", child, fuel - 1)

NewHierarchy(entity, garbage) ==
    [entity |-> entity, parent |-> INVALID_ENTITY, first_child |-> INVALID_ENTITY,
     next_sibling |-> INVALID_ENTITY, local_transform |-> garbage]

\* lines 554-557 of setParent: unl is the world the unlink loop has left;
\* the child loses its parent and sibling, the old parent's record is
\* collected when it became empty
clearChildLinks(unl, child_idx, old_parent) ==
    IF unl.hang THEN unl
    ELSE [w |-> collectGarbage(
                    [unl.w EXCEPT !.m_hierarchy =
                        SetAt(unl.w.m_hierarchy, child_idx,
                              [At(unl.w.m_hierarchy, child_idx) EXCEPT
                                  !.parent = INVALID_ENTITY,
                                  !.next_sibling = INVALID_ENTITY])],
                    old_parent),
          hang |-> FALSE]

\* lines 535-569 of setParent: take the child out of the chain of its old
\* parent, or give a child without hierarchy record a new one.  garbage is
\* the content of the uninitialized local_transform of a new record.
detachFromOldParent(w, new_parent, child, garbage) ==
    LET child_idx == At(w.m_entities, child).hierarchy
        old_parent == IF child_idx >= 0 THEN At(w.m_hierarchy, child_idx).parent
                      ELSE INVALID_ENTITY
    IN IF child_idx >= 0
       THEN IF isValid(old_parent)
            THEN clearChildLinks(
                     unlinkWalk(w, At(w.m_entities, old_parent).hierarchy, "first_child",
                                child, Fuel(w)),
                     child_idx, old_parent)
            ELSE [w |-> w, hang |-> FALSE]
       ELSE IF isValid(new_parent)
       THEN [w |-> [w EXCEPT !.m_entities =
                               SetAt(w.m_entities, child,
                                     [At(w.m_entities, child) EXCEPT
                                         !.hierarchy = Size(w.m_hierarchy)]),
                            !.m_hierarchy =
                               Append(w.m_hierarchy, NewHierarchy(child, garbage))],
             hang |-> FALSE]
       ELSE [w |-> w, hang |-> FALSE]

\* lines 573-583 of setParent: a new parent without hierarchy record gets one
ensureParentRecord(w, new_parent, garbage) ==
    IF At(w.m_entities, new_parent).hierarchy < 0
    THEN [w EXCEPT !.m_entities =
                      SetAt(w.m_entities, new_parent,
                            [At(w.m_entities, new_parent) EXCEPT
                                !.hierarchy = Size(w.m_hierarchy)]),
                   !.m_hierarchy =
                      Append(w.m_hierarchy, NewHierarchy(new_parent, garbage))]
    ELSE w

\* lines 585-590 of setParent: the child becomes the first child of new_parent
linkChild(w, new_parent, child) ==
    LET child_idx == At(w.m_entities, child).hierarchy
        new_parent_idx == At(w.m_entities, new_parent).hierarchy
        local == TransformMul(TransformInverted(getTransform(w, new_parent)),
                              getTransform(w, child))
        hier1 == SetAt(w.m_hierarchy, child_idx,
                       [At(w.m_hierarchy, child_idx) EXCEPT
                           !.parent = new_parent,
                           !.local_transform = local,
                           !.next_sibling = At(w.m_hierarchy, new_parent_idx).first_child])
    IN [w EXCEPT !.m_hierarchy =
          SetAt(hier1, new_parent_idx,
                [At(hier1, new_parent_idx) EXCEPT !.first_child = child])]

\* lines 571-595 of setParent, d being what lines 535-569 have left.  A
\* child whose record was collected with that of its old parent is linked
\* through index -1 of m_hierarchy: the call does not return.
attachToNewParent(d, new_parent, child, garbage) ==
    IF d.hang THEN [w |-> d.w, error |-> FALSE, hang |-> TRUE]
    ELSE IF isValid(new_parent) /\ At(d.w.m_entities, child).hierarchy < 0
    THEN [w |-> d.w, error |-> FALSE, hang |-> TRUE]
    ELSE IF isValid(new_parent)
    THEN [w |-> linkChild(ensureParentRecord(d.w, new_parent, garbage), new_parent, child),
          error |-> FALSE, hang |-> FALSE]
    ELSE [w |-> IF At(d.w.m_entities, child).hierarchy >= 0
                THEN collectGarbage(d.w, child) ELSE d.w,
          error |-> FALSE, hang |-> FALSE]

\* lines 517-596 of setParent, would_create_cycle being the result of line 516
setParentAfterCheck(w, new_parent, child, garbage, would_create_cycle) ==
    IF would_create_cycle = "overflow" THEN [w |-> w, error |-> FALSE, hang |-> TRUE]
    ELSE IF would_create_cycle = "true" THEN [w |-> w, error |-> TRUE, hang |-> FALSE]
    ELSE attachToNewParent(detachFromOldParent(w, new_parent, child, garbage),
                           new_parent, child, garbage)

\* World::setParent.  garbage is the content of the uninitialized
\* local_transform of a hierarchy record the call creates for new_parent.
\* Result: the world after the call, whether an error was logged, and
\* whether the call failed to return (unbounded recursion or endless loop).
setParent(w, new_parent, child, garbage) ==
    setParentAfterCheck(w, new_parent, child, garbage,
                        IF isValid(new_parent) THEN isDescendant(w, child, new_parent)
                        ELSE "false")

\* ---- destroyEntity -------------------------------------------------------
\* mutant of detachChildren: the children are not detached
detachChildren_none(w, entity, fuel) == [w |-> w, hang |-> FALSE]

\* the loop of lines 418-420: detach the first child until there is none
RECURSIVE detachChildren(_, _, _)
RECURSIVE detachNext(_, _, _)
detachChildren(w, entity, fuel) ==
    IF ~isValid(getFirstChild(w, entity)) THEN [w |-> w, hang |-> FALSE]
    ELSE IF fuel = 0 THEN [w |-> w, hang |-> TRUE]
    ELSE detachNext(setParent(w, INVALID_ENTITY, getFirstChild(w, entity),
                              IdentityTransform),
                    entity, fuel)

\* the next turn of the loop, r being the result of the setParent of line 419
detachNext(r, entity, fuel) ==
    IF r.hang THEN [w |-> r.w, hang |-> TRUE]
    ELSE detachChildren(r.w, entity, fuel - 1)

\* World::onComponentCreated, called back by the scene's create method
onComponentCreated(w, entity, component_type) ==
    [w EXCEPT !.m_entities =
        SetAt(w.m_entities, entity,
              [At(w.m_entities, entity) EXCEPT !.components = @ \cup {component_type}])]

\* World::onComponentDestroyed, called back by the scene's destroy method
onComponentDestroyed(w, entity, component_type) ==
    [w EXCEPT !.m_entities =
        SetAt(w.m_entities, entity,
              [At(w.m_entities, entity) EXCEPT !.components = @ \ {component_type}])]

\* what a callback of destroyEntity(entity) finds in the world it is called in
Seen(w, entity, kind, type) ==
    [kind |-> kind, type |-> type,
     valid |-> hasEntity(w, entity),
     linked |-> At(w.m_entities, entity).hierarchy >= 0,
     free |-> w.m_first_free_slot = entity,
     components |-> At(w.m_entities, entity).components]

\* destroy_method(scene, entity) of component type i (line 430): the scene
\* destroys its component and calls World::onComponentDestroyed.  r is the
\* world with the calls made so far.
destroy_method(r, entity, i) ==
    [w |-> onComponentDestroyed(r.w, entity, i),
     events |-> Append(r.events, Seen(r.w, entity, "destroy", i))]

\* mutant of destroyComponents: no destroy method is called
destroyComponents_none(r, entity, i) == r

\* the loop of lines 423-435 from component type i on
RECURSIVE destroyComponents(_, _, _)
destroyComponents(r, entity, i) ==
    IF i >= MAX_TYPES_COUNT THEN r
    ELSE IF i \in At(r.w.m_entities, entity).components
    THEN destroyComponents(destroy_method(r, entity, i), entity, i + 1)
    ELSE destroyComponents(r, entity, i + 1)

\* mutant of recycleSlot: the slot stays valid
recycleSlot_keepsValid(w3, entity) ==
    [w3 EXCEPT !.m_entities =
        SetAt(w3.m_entities, entity,
              [At(w3.m_entities, entity) EXCEPT !.next = w3.m_first_free_slot, !.prev = -1,
                                                !.hierarchy = -1]),
               !.m_first_free_slot = entity]

\* mutant of recycleSlot: the old head of the free list is not linked back
\* to the new head
recycleSlot_noPrev(w3, entity) ==
    [w3 EXCEPT !.m_entities =
        SetAt(w3.m_entities, entity,
              [At(w3.m_entities, entity) EXCEPT !.next = w3.m_first_free_slot, !.prev = -1,
                                                !.hierarchy = -1, !.valid = FALSE]),
               !.m_first_free_slot = entity]

\* lines 437-454 of destroyEntity: push the slot on the free list and
\* release the name record (swapAndPop)
recycleSlot(w3, entity) ==
    LET name == At(w3.m_entities, entity).name
        ents1 == SetAt(w3.m_entities, entity,
                       [At(w3.m_entities, entity) EXCEPT
                           !.next = w3.m_first_free_slot, !.prev = -1,
                           !.hierarchy = -1, !.valid = FALSE])
        ents2 == IF w3.m_first_free_slot >= 0
                 THEN SetAt(ents1, w3.m_first_free_slot,
                            [At(ents1, w3.m_first_free_slot) EXCEPT !.prev = entity])
                 ELSE ents1
        last_name == Back(w3.m_names)
        ents3 == IF name >= 0
                 THEN LET e1 == SetAt(ents2, last_name.entity,
                                      [At(ents2, last_name.entity) EXCEPT !.name = name])
                      IN SetAt(e1, entity, [At(e1, entity) EXCEPT !.name = -1])
                 ELSE ents2
        names1 == IF name >= 0 THEN Pop(SetAt(w3.m_names, name, last_name)) ELSE w3.m_names
    IN [w3 EXCEPT !.m_entities = ents3, !.m_names = names1, !.m_first_free_slot = entity]

\* lines 437-455 of destroyEntity, c being the world and the calls the
\* component loop has left: the slot is recycled, then m_entity_destroyed
\* is invoked
destroyNotify(w4, events, entity) ==
    [w |-> w4, hang |-> FALSE,
     events |-> Append(events, Seen(w4, entity, "entity_destroyed", -1))]

\* lines 423-455 of destroyEntity, d2 being the result of the setParent of
\* line 421
destroyRecycle(c, entity) == destroyNotify(recycleSlot(c.w, entity), c.events, entity)

destroyDetached(d2, entity) ==
    IF d2.hang THEN [w |-> d2.w, hang |-> TRUE, events |-> <<>>]
    ELSE destroyRecycle(destroyComponents([w |-> d2.w, events |-> <<>>], entity, 0), entity)

\* lines 421-454 of destroyEntity, d1 being the result of the loop of lines
\* 418-420
destroyChildless(d1, entity) ==
    IF d1.hang THEN [w |-> d1.w, hang |-> TRUE, events |-> <<>>]
    ELSE destroyDetached(setParent(d1.w, INVALID_ENTITY, entity, IdentityTransform), entity)

\* World::destroyEntity
destroyEntity(w, entity) == destroyChildless(detachChildren(w, entity, Fuel(w)), entity)

\* ---- world transforms ------------------------------------------------------
\* World::transformEntity; transformChildren is its while loop over the
\* children.  The recursion does not end when it enters a cycle of the
\* hierarchy (hang).
RECURSIVE transformEntity(_, _, _, _)
RECURSIVE transformChildren(_, _, _, _)
RECURSIVE transformSiblings(_, _, _, _)
transformEntity(w, entity, update_local, fuel) ==
    LET hierarchy_idx == At(w.m_entities, entity).hierarchy
    IN IF hierarchy_idx < 0 THEN [w |-> w, hang |-> FALSE]
       ELSE IF fuel = 0 THEN [w |-> w, hang |-> TRUE]
       ELSE LET h == At(w.m_hierarchy, hierarchy_idx)
                my_transform == getTransform(w, entity)
                w1 == IF update_local /\ isValid(h.parent)
                      THEN [w EXCEPT !.m_hierarchy =
                              SetAt(w.m_hierarchy, hierarchy_idx,
                                    [h EXCEPT !.local_transform =
                                        TransformMul(TransformInverted(getTransform(w, h.parent)),
                                                     my_transform)])]
                      ELSE w
            IN transformChildren(w1, my_transform, h.first_child, fuel)

transformChildren(w, my_transform, child, fuel) ==
    IF ~isValid(child) THEN [w |-> w, hang |-> FALSE]
    ELSE IF fuel = 0 THEN [w |-> w, hang |-> TRUE]
    ELSE LET child_h == At(w.m_hierarchy, At(w.m_entities, child).hierarchy)
             abs_tr == TransformMul(my_transform, child_h.local_transform)
         IN transformSiblings(
                transformEntity([w EXCEPT !.m_transforms = SetAt(w.m_transforms, child, abs_tr)],
                                child, FALSE, fuel - 1),
                my_transform, child_h.next_sibling, fuel)

\* line 175 and the next turn of the loop, r being the result of the
\* recursive call of line 173
transformSiblings(r, my_transform, next_sibling, fuel) ==
    IF r.hang THEN r
    ELSE transformChildren(r.w, my_transform, next_sibling, fuel - 1)

\* World::setTransform(EntityRef, const Transform&)
setTransform(w, entity, transform) ==
    transformEntity([w EXCEPT !.m_transforms = SetAt(w.m_transforms, entity, transform)],
                    entity, TRUE, Fuel(w))

\* mutant of setPosition: the position is stored, but not propagated
setPosition_noPropagate(w, entity, pos) ==
    [w |-> [w EXCEPT !.m_transforms =
                        SetAt(w.m_transforms, entity,
                              [At(w.m_transforms, entity) EXCEPT !.pos = pos])],
     hang |-> FALSE]

\* World::setPosition
setPosition(w, entity, pos) ==
    transformEntity([w EXCEPT !.m_transforms =
                        SetAt(w.m_transforms, entity,
                              [At(w.m_transforms, entity) EXCEPT !.pos = pos])],
                    entity, TRUE, Fuel(w))

\* World::setScale
setScale(w, entity, scale) ==
    transformEntity([w EXCEPT !.m_transforms =
                        SetAt(w.m_transforms, entity,
                              [At(w.m_transforms, entity) EXCEPT !.scale = scale])],
                    entity, TRUE, Fuel(w))

\* the while loop of setTransformKeepChildren over the children
RECURSIVE keepChildren(_, _, _, _)
keepChildren(w, my_transform, child, fuel) ==
    IF ~isValid(child) THEN [w |-> w, hang |-> FALSE]
    ELSE IF fuel = 0 THEN [w |-> w, hang |-> TRUE]
    ELSE LET idx == At(w.m_entities, child).hierarchy
             child_h == At(w.m_hierarchy, idx)
             w1 == [w EXCEPT !.m_hierarchy =
                      SetAt(w.m_hierarchy, idx,
                            [child_h EXCEPT !.local_transform =
                                TransformMul(TransformInverted(my_transform),
                                             getTransform(w, child))])]
         IN keepChildren(w1, my_transform, child_h.next_sibling, fuel - 1)

\* World::setTransformKeepChildren
setTransformKeepChildren(w, entity, transform) ==
    LET w0 == [w EXCEPT !.m_transforms = SetAt(w.m_transforms, entity, transform)]
        hierarchy_idx == At(w0.m_entities, entity).hierarchy
        h == At(w0.m_hierarchy, hierarchy_idx)
        my_transform == getTransform(w0, entity)
        w1 == IF isValid(h.parent)
              THEN [w0 EXCEPT !.m_hierarchy =
                      SetAt(w0.m_hierarchy, hierarchy_idx,
                            [h EXCEPT !.local_transform =
                                TransformMul(TransformInverted(getTransform(w0, h.parent)),
                                             my_transform)])]
              ELSE w0
    IN IF hierarchy_idx < 0 THEN [w |-> w0, hang |-> FALSE]
       ELSE keepChildren(w1, my_transform, At(w1.m_hierarchy, hierarchy_idx).first_child,
                         Fuel(w))

\* r is the result of a call that passes no assertion
NoAssert(r) == [w |-> r.w, hang |-> r.hang, assert |-> FALSE]

\* World::updateGlobalTransform.  ASSERT(h.parent.isValid()): without a
\* parent the call does not return a result (assert).
updateGlobalTransform(w, entity) ==
    LET h == At(w.m_hierarchy, At(w.m_entities, entity).hierarchy)
    IN IF ~isValid(h.parent) THEN [w |-> w, hang |-> FALSE, assert |-> TRUE]
       ELSE NoAssert(setTransform(w, entity,
                                  TransformMul(getTransform(w, h.parent), h.local_transform)))

\* World::setLocalPosition
setLocalPosition(w, entity, pos) ==
    LET hierarchy_idx == At(w.m_entities, entity).hierarchy
        h == At(w.m_hierarchy, hierarchy_idx)
    IN IF hierarchy_idx < 0
       THEN NoAssert(setPosition(w, entity, pos))
       ELSE updateGlobalTransform(
                [w EXCEPT !.m_hierarchy =
                    SetAt(w.m_hierarchy, hierarchy_idx,
                          [h EXCEPT !.local_transform = [@ EXCEPT !.pos = pos]])],
                entity)

\* World::setLocalTransform
setLocalTransform(w, entity, transform) ==
    LET hierarchy_idx == At(w.m_entities, entity).hierarchy
        h == At(w.m_hierarchy, hierarchy_idx)
    IN IF hierarchy_idx < 0
       THEN NoAssert(setTransform(w, entity, transform))
       ELSE updateGlobalTransform(
                [w EXCEPT !.m_hierarchy =
                    SetAt(w.m_hierarchy, hierarchy_idx,
                          [h EXCEPT !.local_transform = transform])],
                entity)

\* World::setRotation(EntityRef, const Quat&), lines 181-185
setRotation(w, entity, rot) ==
    transformEntity([w EXCEPT !.m_transforms =
                        SetAt(w.m_transforms, entity,
                              [At(w.m_transforms, entity) EXCEPT !.rot = rot])],
                    entity, TRUE, Fuel(w))

\* World::setLocalRotation
setLocalRotation(w, entity, rot) ==
    LET hierarchy_idx == At(w.m_entities, entity).hierarchy
        h == At(w.m_hierarchy, hierarchy_idx)
    IN IF hierarchy_idx < 0
       THEN NoAssert(setRotation(w, entity, rot))
       ELSE updateGlobalTransform(
                [w EXCEPT !.m_hierarchy =
                    SetAt(w.m_hierarchy, hierarchy_idx,
                          [h EXCEPT !.local_transform = [@ EXCEPT !.rot = rot]])],
                entity)

\* World::getLocalTransform
getLocalTransform(w, entity) ==
    LET hierarchy_idx == At(w.m_entities, entity).hierarchy
    IN IF hierarchy_idx < 0 THEN getTransform(w, entity)
       ELSE At(w.m_hierarchy, hierarchy_idx).local_transform

\* ---- names -------------------------------------------------------------------
\* World::setEntityName
setEntityName(w, entity, name) ==
    LET name_idx == At(w.m_entities, entity).name
    IN IF name_idx < 0
       THEN IF name = "" THEN w
            ELSE [w EXCEPT !.m_entities =
                              SetAt(w.m_entities, entity,
                                    [At(w.m_entities, entity) EXCEPT !.name = Size(w.m_names)]),
                           !.m_names = Append(w.m_names, [entity |-> entity, name |-> name])]
       ELSE [w EXCEPT !.m_names =
                SetAt(w.m_names, name_idx, [At(w.m_names, name_idx) EXCEPT !.name = name])]

\* World::getEntityName
getEntityName(w, entity) ==
    LET name_idx == At(w.m_entities, entity).name
    IN IF name_idx < 0 THEN "" ELSE At(w.m_names, name_idx).name

\* ---- serialization ------------------------------------------------------------
\* The stream is the sequence of the values written: one element per entity
\* reference, count, position, rotation and string, and one element per
\* float of a scale, so that the legacy scale format (one float and one
\* float of padding) reads a different number of elements than the Vec3
\* format.

\* the loop of lines 680-687 from index i on
RECURSIVE serializeEntities(_, _)
serializeEntities(w, i) ==
    IF i >= Size(w.m_entities) THEN <<>>
    ELSE IF ~At(w.m_entities, i).valid THEN serializeEntities(w, i + 1)
    ELSE LET tr == At(w.m_transforms, i)
         IN <<i, tr.pos, tr.rot, tr.scale[1], tr.scale[2], tr.scale[3]>>
            \o serializeEntities(w, i + 1)

\* the loop of lines 691-694 from name record i on
RECURSIVE serializeNames(_, _)
serializeNames(w, i) ==
    IF i >= Size(w.m_names) THEN <<>>
    ELSE <<At(w.m_names, i).entity, At(w.m_names, i).name>> \o serializeNames(w, i + 1)

\* the loop of lines 698-706 from hierarchy record i on
RECURSIVE serializeHierarchy(_, _)
serializeHierarchy(w, i) ==
    IF i >= Size(w.m_hierarchy) THEN <<>>
    ELSE LET h == At(w.m_hierarchy, i)
         IN <<h.entity, h.parent, h.first_child, h.next_sibling,
              h.local_transform.pos, h.local_transform.rot,
              h.local_transform.scale[1], h.local_transform.scale[2],
              h.local_transform.scale[3]>>
            \o serializeHierarchy(w, i + 1)

\* World::serialize
serialize(w) ==
    <<Size(w.m_entities)>> \o serializeEntities(w, 0) \o <<INVALID_ENTITY>>
    \o <<Size(w.m_names)>> \o serializeNames(w, 0)
    \o <<Size(w.m_hierarchy)>> \o serializeHierarchy(w, 0)

\* EntityMap::set
EntityMap_set(m_map, src, dst) ==
    LET grown == m_map \o [i \in 1 .. (src + 1 - Len(m_map)) |-> INVALID_ENTITY]
    IN SetAt(grown, src, dst)

\* EntityMap::get(EntityPtr)
EntityMap_get(m_map, e) ==
    IF isValid(e) /\ e < Size(m_map) THEN At(m_map, e) ELSE INVALID_ENTITY

\* the scale as deserialize reads it at stream position pos (1-based):
\* a Vec3 or, in the legacy format, scale.x and a float of padding
readScale(s, pos, vec3_scale) ==
    IF vec3_scale THEN [scale |-> <<s[pos], s[pos + 1], s[pos + 2]>>, pos |-> pos + 3]
    ELSE [scale |-> <<s[pos], 1, 1>>, pos |-> pos + 2]

\* the loop of lines 721-736: d is [w, map, pos], pos the read position
RECURSIVE deserializeEntities(_, _, _)
deserializeEntities(s, d, vec3_scale) ==
    LET e == s[d.pos]
    IN IF ~isValid(e) THEN [d EXCEPT !.pos = d.pos + 1]
       ELSE LET c == createEntity(d.w, 0, 1)
                new_e == c.ret
                sc == readScale(s, d.pos + 3, vec3_scale)
                \* line 735: scale.y = scale.z = scale.x
                tr == [pos |-> s[d.pos + 1], rot |-> s[d.pos + 2],
                       scale |-> <<sc.scale[1], sc.scale[1], sc.scale[1]>>]
            IN deserializeEntities(s,
                  [w |-> [c.w EXCEPT !.m_transforms = SetAt(c.w.m_transforms, new_e, tr)],
                   map |-> EntityMap_set(d.map, e, new_e),
                   pos |-> sc.pos],
                  vec3_scale)

\* the loop of lines 740-746, count names left to read
RECURSIVE deserializeNames(_, _, _)
deserializeNames(s, d, count) ==
    IF count = 0 THEN d
    ELSE LET entity == At(d.map, s[d.pos])
             w1 == [d.w EXCEPT !.m_names = Append(d.w.m_names,
                                                  [entity |-> entity, name |-> s[d.pos + 1]]),
                               !.m_entities =
                                  SetAt(d.w.m_entities, entity,
                                        [At(d.w.m_entities, entity) EXCEPT
                                            !.name = Size(d.w.m_names)])]
         IN deserializeNames(s, [d EXCEPT !.w = w1, !.pos = d.pos + 2], count - 1)

\* the loop of lines 752-775: record i of count, after old_count older ones
RECURSIVE deserializeHierarchy(_, _, _, _, _, _)
deserializeHierarchy(s, d, i, count, old_count, vec3_scale) ==
    IF i >= count THEN d
    ELSE LET sc == IF vec3_scale
                   THEN readScale(s, d.pos + 6, TRUE)
                   ELSE LET x == readScale(s, d.pos + 6, FALSE)
                        IN [x EXCEPT !.scale = <<x.scale[1], x.scale[1], x.scale[1]>>]
             h == [entity |-> EntityMap_get(d.map, s[d.pos]),
                   parent |-> EntityMap_get(d.map, s[d.pos + 1]),
                   first_child |-> EntityMap_get(d.map, s[d.pos + 2]),
                   next_sibling |-> EntityMap_get(d.map, s[d.pos + 3]),
                   local_transform |-> [pos |-> s[d.pos + 4], rot |-> s[d.pos + 5],
                                        scale |-> sc.scale]]
             w1 == [d.w EXCEPT !.m_hierarchy = Append(d.w.m_hierarchy, h),
                               !.m_entities =
                                  SetAt(d.w.m_entities, h.entity,
                                        [At(d.w.m_entities, h.entity) EXCEPT
                                            !.hierarchy = i + old_count])]
         IN deserializeHierarchy(s, [d EXCEPT !.w = w1, !.pos = sc.pos],
                                 i + 1, count, old_count, vec3_scale)

\* World::deserialize: the world and the entity map after reading stream s
\* lines 738-746: the count of names, then the names
readNames(s, d1) == deserializeNames(s, [d1 EXCEPT !.pos = d1.pos + 1], s[d1.pos])

\* lines 748-775: the count of hierarchy records, then the records
readHierarchy(s, d2, vec3_scale) ==
    deserializeHierarchy(s, [d2 EXCEPT !.pos = d2.pos + 1], 0, s[d2.pos],
                         Size(d2.w.m_hierarchy), vec3_scale)

deserialize(w, s, entity_map, vec3_scale) ==
    readHierarchy(s,
                  readNames(s, deserializeEntities(s, [w |-> w, map |-> entity_map, pos |-> 2],
                                                   vec3_scale)),
                  vec3_scale)

\* ---- animation blend tree: the runtime stream (animation/nodes.cpp) ---------
\* Time is an integer number of ticks.  The runtime stream is the sequence
\* of the records the nodes write (a Time, or the RuntimeData of a Condition,
\* Select or Group node); every record carries the id of the node that wrote
\* it, which the code does not store.  input_runtime is the stream of the
\* previous pass and pos the number of its records the read cursor is past.
OneSecond == 2          \* ticks of Time::fromSeconds(1)
AnimLength == 4         \* length in ticks of the clip bound to animation slot 0
MaxTimeDelta == 2       \* time_delta of an update is 1..MaxTimeDelta ticks
MaxTicks == 4           \* number of updateAnimator calls on one animator
ExitTimeDen == 2        \* Transition::exit_time is given in 1/ExitTimeDen of the loop
Wildcard == -1          \* 0xffFFffFF as from / to of a Transition

Minimum(S) == CHOOSE x \in S : \A y \in S : x <= y

NullNode == [type |-> "null"]

AnimationNode(id, slot, looped) ==
    [type |-> "animation", id |-> id, m_slot |-> slot, looped |-> looped]

ConditionNode(id, condition, blend_length, true_node, false_node) ==
    [type |-> "condition", id |-> id, m_condition |-> condition,
     m_blend_length |-> blend_length, m_true_node |-> true_node, m_false_node |-> false_node]

SelectNode(id, input_index, blend_length, children) ==
    [type |-> "select", id |-> id, m_input_index |-> input_index,
     m_blend_length |-> blend_length, m_children |-> children]

GroupNode(id, blend_length, children, transitions) ==
    [type |-> "group", id |-> id, m_blend_length |-> blend_length,
     m_children |-> children, m_transitions |-> transitions]

\* a compiled condition: input number input has the value value
Expr(input, value) == [input |-> input, value |-> value]

\* Condition::eval
eval(condition, ctx) == ctx.inputs[condition.input + 1] = condition.value

getInputValue(ctx, idx) == ctx.inputs[idx + 1]

\* ids of the nodes of a tree
RECURSIVE NodeIds(_)
RECURSIVE ChildrenIds(_, _)
NodeIds(n) ==
    IF n.type = "null" THEN {}
    ELSE IF n.type = "animation" THEN {n.id}
    ELSE IF n.type = "condition"
    THEN {n.id} \cup NodeIds(n.m_true_node) \cup NodeIds(n.m_false_node)
    ELSE {n.id} \cup ChildrenIds(n.m_children, 1)

ChildrenIds(children, i) ==
    IF i > Len(children) THEN {}
    ELSE NodeIds(children[i].node) \cup ChildrenIds(children, i + 1)

\* number of the records that node n and the nodes below it wrote
Written(n, records) ==
    Cardinality({i \in 1 .. Len(records) : records[i].node \in NodeIds(n)})

\* ---- LocalRigidTransform and the root motion of a clip ------------------------
\* a rigid transform on one axis: a position and a rotation that is the
\* identity (1) or the half turn (-1)
LocalRigidTransform(pos, rot) == [pos |-> pos, rot |-> rot]

\* LocalRigidTransform::operator*
LocalRigidTransform_mul(a, b) == LocalRigidTransform(a.pos + a.rot * b.pos, a.rot * b.rot)

\* LocalRigidTransform::inverted
LocalRigidTransform_inverted(a) == LocalRigidTransform(0 - a.rot * a.pos, a.rot)

\* a ready clip of the given length whose root moves step per tick and turns
\* round at tick turn_at; length 0 stands for no animation in the slot
Animation(len, step, turn_at) == [length |-> len, step |-> step, turn_at |-> turn_at]

NoAnimation == Animation(0, 0, 0)

\* Animation::getRootMotion(t): the cumulative root pose of the clip at t
Animation_getRootMotion(anim, t) ==
    LocalRigidTransform(IF t < anim.turn_at THEN anim.step * t
                        ELSE anim.step * (2 * anim.turn_at - t),
                        IF t < anim.turn_at THEN 1 ELSE -1)

\* getRootMotionEx; t0 <= t1 is asserted
getRootMotionEx(anim, t0, t1) ==
    LocalRigidTransform_mul(LocalRigidTransform_inverted(Animation_getRootMotion(anim, t0)),
                            Animation_getRootMotion(anim, t1))

\* mutant of getRootMotion: the end of the loop is not looked at
getRootMotion_noWrap(anim, t0_abs, t1_abs) ==
    getRootMotionEx(anim, t0_abs % anim.length, t1_abs % anim.length)

\* getRootMotion(ctx, anim, t0_abs, t1_abs)
getRootMotion(anim, t0_abs, t1_abs) ==
    IF t0_abs % anim.length <= t1_abs % anim.length
    THEN getRootMotionEx(anim, t0_abs % anim.length, t1_abs % anim.length)
    ELSE LocalRigidTransform_mul(getRootMotionEx(anim, t0_abs % anim.length, anim.length),
                                 getRootMotionEx(anim, 0, t1_abs % anim.length))

\* ---- RuntimeContext ----------------------------------------------------------
\* inputs: two bool inputs and one float input; animations: slot 0 holds a
\* ready clip, slot 1 holds none (length 0 stands for no animation)
RuntimeContext(inputs) ==
    [data |-> <<>>, input_runtime |-> <<>>, pos |-> 0, inputs |-> inputs,
     animations |-> <<Animation(AnimLength, 1, 2), NoAnimation>>, time_delta |-> 0,
     misread |-> FALSE, undefined |-> FALSE, skips |-> <<>>]

\* input_runtime holds a whole record of the given type at the read cursor
CanRead(ctx, type) ==
    ctx.pos < Len(ctx.input_runtime) /\ ctx.input_runtime[ctx.pos + 1].type = type

Front(ctx) == ctx.input_runtime[ctx.pos + 1]

\* the pass went on with bytes that are no record of the type it reads, or
\* with an element outside an array: what it does from there on is not
\* determined, the pass is not followed further
Undefined(ctx) == [ctx EXCEPT !.undefined = TRUE]

\* input_runtime.read<T>() by node n: the cursor after the read.  misread
\* records that the record is one another node wrote.
read(ctx, n, type) ==
    IF ~CanRead(ctx, type) THEN Undefined(ctx)
    ELSE [ctx EXCEPT !.pos = @ + 1, !.misread = @ \/ Front(ctx).node # n.id]

\* input_runtime.read<T>(): the value read
readValue(ctx, type) == IF CanRead(ctx, type) THEN Front(ctx) ELSE [type |-> "none"]

\* input_runtime.skip(sizeof(T))
skipBytes(ctx, type) ==
    IF ~CanRead(ctx, type) THEN Undefined(ctx) ELSE [ctx EXCEPT !.pos = @ + 1]

\* data.write(value) by node n
write(ctx, n, value) ==
    IF ctx.undefined THEN ctx
    ELSE [ctx EXCEPT !.data = Append(@, [value EXCEPT !.node = n.id])]

\* a call of n.skip: before is the context at the call, after at the return
LogSkip(n, before, after) ==
    [after EXCEPT !.skips =
        Append(@, [node |-> n.id,
                   advanced |-> after.pos - before.pos,
                   written |-> Written(n, before.input_runtime),
                   wrote |-> Len(after.data) - Len(before.data),
                   undefined |-> after.undefined])]

RECURSIVE update(_, _)
RECURSIVE enter(_, _)
RECURSIVE skipNode(_, _)
RECURSIVE skip(_, _)
RECURSIVE getPose(_, _)
RECURSIVE length(_, _)
RECURSIVE time(_, _)

\* ---- AnimationNode -----------------------------------------------------------
\* lines 671-688, data being the Time read in line 670 (events and root
\* motion are not part of the stream)
AnimationNode_advance(n, ctx, data) ==
    IF ctx.undefined THEN ctx
    ELSE LET t == data.t + ctx.time_delta
             len == ctx.animations[n.m_slot + 1].length
         IN write(ctx, n, [data EXCEPT !.t = IF len > 0 /\ ~n.looped /\ t > len
                                            THEN len ELSE t])

\* lines 670-686: the root motion an update of the node returns, ctx being
\* the context at the call
AnimationNode_rootMotion(n, ctx) ==
    LET prev_t == readValue(ctx, "Time").t
        anim == ctx.animations[n.m_slot + 1]
    IN IF anim.length = 0 THEN LocalRigidTransform(0, 1)
       ELSE IF n.looped THEN getRootMotion(anim, prev_t, prev_t + ctx.time_delta)
       ELSE getRootMotion(anim, Minimum({prev_t, anim.length}),
                          Minimum({prev_t + ctx.time_delta, anim.length}))

AnimationNode_update(n, ctx) ==
    AnimationNode_advance(n, read(ctx, n, "Time"), readValue(ctx, "Time"))

AnimationNode_enter(n, ctx) == write(ctx, n, [node |-> n.id, type |-> "Time", t |-> 0])

AnimationNode_skip(n, ctx) == skipBytes(ctx, "Time")

AnimationNode_getPose(n, ctx) == read(ctx, n, "Time")

AnimationNode_length(n, ctx) == ctx.animations[n.m_slot + 1].length

\* ---- ConditionNode -----------------------------------------------------------
ConditionChild(n, is_true) == IF is_true THEN n.m_true_node ELSE n.m_false_node

HasBothNodes(n) == n.m_true_node.type # "null" /\ n.m_false_node.type # "null"

\* mutant of ConditionNode_step: the condition is evaluated in every tick
ConditionNode_step_always(n, ctx, data) ==
    IF ctx.undefined THEN ctx
    ELSE IF data.is_true # eval(n.m_condition, ctx)
    THEN enter(ConditionChild(n, ~data.is_true),
               update(ConditionChild(n, data.is_true),
                      write(ctx, n, [data EXCEPT !.t = 0, !.is_true = ~data.is_true])))
    ELSE update(ConditionChild(n, data.is_true), write(ctx, n, data))

\* lines 511-553, data being the RuntimeData read in line 509
ConditionNode_step(n, ctx, data) ==
    IF ctx.undefined THEN ctx
    ELSE IF data.t < n.m_blend_length
    THEN IF data.t + ctx.time_delta >= n.m_blend_length
         THEN update(ConditionChild(n, data.is_true),
                     write(skip(ConditionChild(n, ~data.is_true), ctx), n,
                           [data EXCEPT !.t = @ + ctx.time_delta]))
         ELSE update(ConditionChild(n, data.is_true),
                     update(ConditionChild(n, ~data.is_true),
                            write(ctx, n, [data EXCEPT !.t = @ + ctx.time_delta])))
    ELSE IF data.is_true # eval(n.m_condition, ctx)
    THEN IF n.m_blend_length = 0
         THEN enter(ConditionChild(n, ~data.is_true),
                    write(skip(ConditionChild(n, data.is_true), ctx), n,
                          [data EXCEPT !.is_true = ~data.is_true]))
         ELSE enter(ConditionChild(n, ~data.is_true),
                    update(ConditionChild(n, data.is_true),
                           write(ctx, n, [data EXCEPT !.t = 0, !.is_true = ~data.is_true])))
    ELSE update(ConditionChild(n, data.is_true), write(ctx, n, data))

ConditionNode_update(n, ctx) ==
    IF ~HasBothNodes(n) THEN ctx
    ELSE ConditionNode_step(n, read(ctx, n, "ConditionData"),
                            readValue(ctx, "ConditionData"))

ConditionNode_enter(n, ctx) ==
    IF ~HasBothNodes(n) THEN ctx
    ELSE enter(ConditionChild(n, eval(n.m_condition, ctx)),
               write(ctx, n, [node |-> n.id, type |-> "ConditionData",
                              t |-> n.m_blend_length,
                              is_true |-> eval(n.m_condition, ctx)]))

\* lines 570-571, data being the RuntimeData read in line 569
ConditionNode_skipRunning(n, ctx, data) ==
    IF ctx.undefined THEN ctx
    ELSE skip(ConditionChild(n, data.is_true), ctx)

ConditionNode_skip(n, ctx) ==
    IF ~HasBothNodes(n) THEN ctx
    ELSE ConditionNode_skipRunning(n, read(ctx, n, "ConditionData"),
                                   readValue(ctx, "ConditionData"))

\* lines 578-586, data being the RuntimeData read in line 577
ConditionNode_pose(n, ctx, data) ==
    IF ctx.undefined THEN ctx
    ELSE IF data.t < n.m_blend_length
    THEN getPose(ConditionChild(n, data.is_true),
                 getPose(ConditionChild(n, ~data.is_true), ctx))
    ELSE getPose(ConditionChild(n, data.is_true), ctx)

ConditionNode_getPose(n, ctx) ==
    IF ~HasBothNodes(n) THEN ctx
    ELSE ConditionNode_pose(n, read(ctx, n, "ConditionData"),
                            readValue(ctx, "ConditionData"))

\* ---- SelectNode and GroupNode: the children and the crossfade ----------------
HasChild(n, idx) == idx >= 0 /\ idx < Size(n.m_children)

ChildNode(n, idx) == At(n.m_children, idx).node

\* mutant of crossfade: the crossfade goes on for one tick more
crossfade_late(n, ctx, data, blend_length) ==
    IF blend_length + 1 < data.t + ctx.time_delta
    THEN update(ChildNode(n, data.to),
                write(skip(ChildNode(n, data.from), ctx), n,
                      [data EXCEPT !.from = data.to, !.t = 0]))
    ELSE update(ChildNode(n, data.to),
                update(ChildNode(n, data.from),
                       write(ctx, n, [data EXCEPT !.t = @ + ctx.time_delta])))

\* the crossfade of a Select or Group node goes on (from # to): lines
\* 838-856 and 962-980, blend_length being the length of the crossfade
crossfade(n, ctx, data, blend_length) ==
    IF blend_length < data.t + ctx.time_delta
    THEN update(ChildNode(n, data.to),
                write(skip(ChildNode(n, data.from), ctx), n,
                      [data EXCEPT !.from = data.to, !.t = 0]))
    ELSE update(ChildNode(n, data.to),
                update(ChildNode(n, data.from),
                       write(ctx, n, [data EXCEPT !.t = @ + ctx.time_delta])))

\* a crossfade to child to begins: lines 860-865, 1010-1016 and 1026-1032
startCrossfade(n, ctx, data, to) ==
    enter(ChildNode(n, to),
          update(ChildNode(n, data.from), write(ctx, n, [data EXCEPT !.to = to, !.t = 0])))

\* no crossfade: lines 868-870 and 1037-1039
stay(n, ctx, data) ==
    update(ChildNode(n, data.from), write(ctx, n, [data EXCEPT !.t = @ + ctx.time_delta]))

\* lines 890-893 and 1067-1070, data being the RuntimeData read before
skipChildren(n, ctx, data) ==
    IF ctx.undefined THEN ctx
    ELSE IF ~HasChild(n, data.from) \/ ~HasChild(n, data.to) THEN Undefined(ctx)
    ELSE IF data.from # data.to
    THEN skip(ChildNode(n, data.to), skip(ChildNode(n, data.from), ctx))
    ELSE skip(ChildNode(n, data.from), ctx)

\* lines 901-905 and 1077-1081, data being the RuntimeData read before
poseChildren(n, ctx, data) ==
    IF ctx.undefined THEN ctx
    ELSE IF ~HasChild(n, data.from) \/ ~HasChild(n, data.to) THEN Undefined(ctx)
    ELSE IF data.from # data.to
    THEN getPose(ChildNode(n, data.to), getPose(ChildNode(n, data.from), ctx))
    ELSE getPose(ChildNode(n, data.from), ctx)

\* ---- SelectNode --------------------------------------------------------------
getChildIndex(n, input_val) ==
    LET matching == {i \in 0 .. Size(n.m_children) - 1 :
                        input_val <= At(n.m_children, i).max_value}
    IN IF matching = {} THEN Size(n.m_children) - 1 ELSE Minimum(matching)

\* lines 834-870, data being the RuntimeData read in line 832
SelectNode_step(n, ctx, data) ==
    IF ctx.undefined THEN ctx
    ELSE IF ~HasChild(n, data.from) \/ ~HasChild(n, data.to) THEN Undefined(ctx)
    ELSE IF data.from # data.to THEN crossfade(n, ctx, data, n.m_blend_length)
    ELSE IF getChildIndex(n, getInputValue(ctx, n.m_input_index)) # data.from
    THEN startCrossfade(n, ctx, data, getChildIndex(n, getInputValue(ctx, n.m_input_index)))
    ELSE stay(n, ctx, data)

SelectNode_update(n, ctx) ==
    IF n.m_children = <<>> THEN ctx
    ELSE SelectNode_step(n, read(ctx, n, "SelectData"), readValue(ctx, "SelectData"))

SelectNode_enter(n, ctx) ==
    IF n.m_children = <<>> THEN ctx
    ELSE enter(ChildNode(n, getChildIndex(n, getInputValue(ctx, n.m_input_index))),
               write(ctx, n, [node |-> n.id, type |-> "SelectData",
                              from |-> getChildIndex(n, getInputValue(ctx, n.m_input_index)),
                              to |-> getChildIndex(n, getInputValue(ctx, n.m_input_index)),
                              t |-> 0]))

SelectNode_skip(n, ctx) ==
    IF n.m_children = <<>> THEN ctx
    ELSE skipChildren(n, read(ctx, n, "SelectData"), readValue(ctx, "SelectData"))

SelectNode_getPose(n, ctx) ==
    IF n.m_children = <<>> THEN ctx
    ELSE poseChildren(n, read(ctx, n, "SelectData"), readValue(ctx, "SelectData"))

\* ---- GroupNode ---------------------------------------------------------------
\* the children a Group may select: SELECTABLE and with a true condition
Selectable(n, ctx) ==
    {i \in 0 .. Size(n.m_children) - 1 :
        At(n.m_children, i).selectable /\ eval(At(n.m_children, i).condition, ctx)}

\* mutant of InExitWindow: the exit time is not looked at
InExitWindow_always(transition, child, ctx) == TRUE

\* lines 996-1001: the exit time of the transition lies in this step of the
\* running child
InExitWindow(transition, child, ctx) ==
    LET len == length(child, ctx)
        beg == time(child, ctx)
        end == beg + ctx.time_delta
        loop_start == beg - (beg % len)
        t == loop_start + (transition.exit_time * len) \div ExitTimeDen
    IN ~(t < beg \/ t >= end)

\* the exit window of the transition cannot be computed: the loop length of
\* the running child is 0, or its time is not in the stream
NoExitWindow(child, ctx) ==
    length(child, ctx) = 0 \/ (child.type = "animation" /\ ~CanRead(ctx, "Time"))

\* the loop of lines 989-1017 from transition i on: the transition that
\* fires, or the flags the loop leaves
RECURSIVE findTransition(_, _, _, _, _)
findTransition(n, ctx, data, i, waiting_for_exit_time) ==
    IF i >= Size(n.m_transitions)
    THEN [kind |-> "none", waiting_for_exit_time |-> waiting_for_exit_time,
          can_go_anywhere |-> FALSE]
    ELSE LET transition == At(n.m_transitions, i)
         IN IF transition.to = data.to
            THEN findTransition(n, ctx, data, i + 1, waiting_for_exit_time)
            ELSE IF transition.from # data.from /\ transition.from # Wildcard
            THEN findTransition(n, ctx, data, i + 1, waiting_for_exit_time)
            ELSE IF transition.to # Wildcard
                    /\ ~eval(At(n.m_children, transition.to).condition, ctx)
            THEN findTransition(n, ctx, data, i + 1, waiting_for_exit_time)
            ELSE IF transition.exit_time >= 0 /\ NoExitWindow(ChildNode(n, data.from), ctx)
            THEN [kind |-> "undefined"]
            ELSE IF transition.exit_time >= 0
                    /\ ~InExitWindow(transition, ChildNode(n, data.from), ctx)
            THEN findTransition(n, ctx, data, i + 1, TRUE)
            ELSE IF transition.to = Wildcard
            THEN [kind |-> "none", waiting_for_exit_time |-> FALSE, can_go_anywhere |-> TRUE]
            ELSE [kind |-> "transition", to |-> transition.to,
                  blend_length |-> transition.blend_length]

\* lines 1010-1039, found being what the loop over the transitions has left
GroupNode_select(n, ctx, data, found) ==
    IF found.kind = "undefined" THEN Undefined(ctx)
    ELSE IF found.kind = "transition"
    THEN startCrossfade(n, ctx, [data EXCEPT !.blend_length = found.blend_length], found.to)
    ELSE IF (~eval(At(n.m_children, data.from).condition, ctx) \/ found.can_go_anywhere)
            /\ ~found.waiting_for_exit_time
            /\ Selectable(n, ctx) \ {data.from} # {}
    THEN startCrossfade(n, ctx, [data EXCEPT !.blend_length = n.m_blend_length],
                        Minimum(Selectable(n, ctx) \ {data.from}))
    ELSE stay(n, ctx, data)

\* lines 956-1039, data being the RuntimeData read in line 955
GroupNode_step(n, ctx, data) ==
    IF ctx.undefined THEN ctx
    ELSE IF n.m_children = <<>> THEN write(ctx, n, data)
    ELSE IF ~HasChild(n, data.from) \/ ~HasChild(n, data.to) THEN Undefined(ctx)
    ELSE IF data.from # data.to THEN crossfade(n, ctx, data, data.blend_length)
    ELSE IF data.from \in Selectable(n, ctx) THEN stay(n, ctx, data)
    ELSE GroupNode_select(n, ctx, data, findTransition(n, ctx, data, 0, FALSE))

GroupNode_update(n, ctx) ==
    GroupNode_step(n, read(ctx, n, "GroupData"), readValue(ctx, "GroupData"))

\* lines 1060-1062, first being the child the loop of lines 1052-1059 found
GroupNode_enterChild(n, ctx, first) ==
    IF HasChild(n, first)
    THEN enter(ChildNode(n, first),
               write(ctx, n, [node |-> n.id, type |-> "GroupData", from |-> first,
                              to |-> first, t |-> 0, blend_length |-> 0]))
    ELSE write(ctx, n, [node |-> n.id, type |-> "GroupData", from |-> first,
                        to |-> first, t |-> 0, blend_length |-> 0])

GroupNode_enter(n, ctx) ==
    GroupNode_enterChild(n, ctx, IF Selectable(n, ctx) = {} THEN 0
                                 ELSE Minimum(Selectable(n, ctx)))

GroupNode_skip(n, ctx) ==
    skipChildren(n, read(ctx, n, "GroupData"), readValue(ctx, "GroupData"))

\* lines 1075-1081, data being the RuntimeData read in line 1074
GroupNode_pose(n, ctx, data) ==
    IF ctx.undefined \/ n.m_children = <<>> THEN ctx ELSE poseChildren(n, ctx, data)

GroupNode_getPose(n, ctx) ==
    GroupNode_pose(n, read(ctx, n, "GroupData"), readValue(ctx, "GroupData"))

\* ---- the virtual calls ---------------------------------------------------------
update(n, ctx) ==
    IF ctx.undefined THEN ctx
    ELSE IF n.type = "animation" THEN AnimationNode_update(n, ctx)
    ELSE IF n.type = "condition" THEN ConditionNode_update(n, ctx)
    ELSE IF n.type = "select" THEN SelectNode_update(n, ctx)
    ELSE GroupNode_update(n, ctx)

enter(n, ctx) ==
    IF ctx.undefined THEN ctx
    ELSE IF n.type = "animation" THEN AnimationNode_enter(n, ctx)
    ELSE IF n.type = "condition" THEN ConditionNode_enter(n, ctx)
    ELSE IF n.type = "select" THEN SelectNode_enter(n, ctx)
    ELSE GroupNode_enter(n, ctx)

skipNode(n, ctx) ==
    IF n.type = "animation" THEN AnimationNode_skip(n, ctx)
    ELSE IF n.type = "condition" THEN ConditionNode_skip(n, ctx)
    ELSE IF n.type = "select" THEN SelectNode_skip(n, ctx)
    ELSE GroupNode_skip(n, ctx)

skip(n, ctx) == IF ctx.undefined THEN ctx ELSE LogSkip(n, ctx, skipNode(n, ctx))

getPose(n, ctx) ==
    IF ctx.undefined THEN ctx
    ELSE IF n.type = "animation" THEN AnimationNode_getPose(n, ctx)
    ELSE IF n.type = "condition" THEN ConditionNode_getPose(n, ctx)
    ELSE IF n.type = "select" THEN SelectNode_getPose(n, ctx)
    ELSE GroupNode_getPose(n, ctx)

\* Node::length
length(n, ctx) == IF n.type = "animation" THEN AnimationNode_length(n, ctx) ELSE OneSecond

\* Node::time; AnimationNode::time is input_runtime.getAs<Time>()
time(n, ctx) == IF n.type = "animation" THEN Front(ctx).t ELSE 0

\* ---- Controller ----------------------------------------------------------------
\* Controller::createRuntime: the inputs are zeroed and the root is entered
createRuntime(m_root) == enter(m_root, RuntimeContext(<<FALSE, FALSE, 0>>))

\* Controller::update: the stream of the previous pass becomes input_runtime,
\* the root writes the new stream
Controller_update(m_root, ctx, time_delta) ==
    update(m_root, [ctx EXCEPT !.input_runtime = ctx.data, !.data = <<>>, !.pos = 0,
                               !.time_delta = time_delta, !.misread = FALSE,
                               !.skips = <<>>])

\* Controller::getPose: input_runtime is the stream the update has written
Controller_getPose(m_root, ctx) ==
    getPose(m_root, [ctx EXCEPT !.input_runtime = ctx.data, !.pos = 0,
                                !.misread = FALSE, !.skips = <<>>])

\* ---- the controllers of the model ------------------------------------------------
\* inputs 0 and 1 are bool, input 2 is float
Clip(id) == AnimationNode(id, 0, FALSE)

SelectChild(max_value, node) == [max_value |-> max_value, node |-> node]

GroupChild(condition, selectable, node) ==
    [condition |-> condition, selectable |-> selectable, node |-> node]

Transition(from, to, exit_time, blend_length) ==
    [from |-> from, to |-> to, exit_time |-> exit_time, blend_length |-> blend_length]

\* a Condition with a crossfade of 2 ticks on input 1
InnerCondition(id) == ConditionNode(id, Expr(1, TRUE), 2, Clip(id + 1), Clip(id + 2))

SelectOverCondition ==
    SelectNode(1, 2, 1, <<SelectChild(0, InnerCondition(2)), SelectChild(1, Clip(5))>>)

ConditionOverCondition ==
    ConditionNode(1, Expr(0, TRUE), 0, InnerCondition(2), Clip(5))

GroupOverCondition ==
    GroupNode(1, 1,
              <<GroupChild(Expr(0, FALSE), TRUE, InnerCondition(2)),
                GroupChild(Expr(0, TRUE), TRUE, Clip(5))>>,
              <<>>)

SelectOverEmptyGroup ==
    SelectNode(1, 2, 1, <<SelectChild(0, GroupNode(2, 1, <<>>, <<>>)),
                          SelectChild(1, Clip(3))>>)

GroupWithTransitions ==
    GroupNode(1, 1,
              <<GroupChild(Expr(0, FALSE), TRUE, AnimationNode(2, 0, TRUE)),
                GroupChild(Expr(0, TRUE), FALSE, Clip(3)),
                GroupChild(Expr(1, TRUE), TRUE, AnimationNode(4, 1, FALSE))>>,
              <<Transition(0, 1, 1, 2), Transition(Wildcard, Wildcard, 0 - 1, 1)>>)

Controllers ==
    {SelectOverCondition, ConditionOverCondition, GroupOverCondition,
     SelectOverEmptyGroup, GroupWithTransitions}

\* ---- the animator as a state machine -----------------------------------------------
\* what is kept of a pass: the position of the read cursor at its end, the
\* size of input_runtime, and what happened on the way
NoPass == [ran |-> FALSE, read |-> 0, size |-> 0, misread |-> FALSE,
           undefined |-> FALSE, skips |-> <<>>]

Pass(ctx) == [ran |-> TRUE, read |-> ctx.pos, size |-> Len(ctx.input_runtime),
              misread |-> ctx.misread, undefined |-> ctx.undefined, skips |-> ctx.skips]

NoAnimator ==
    [resource |-> NullNode, has_ctx |-> FALSE, data |-> <<>>,
     inputs |-> <<FALSE, FALSE, 0>>, ticks |-> 0, time_delta |-> 0, failed |-> FALSE,
     update_pass |-> NoPass, pose_pass |-> NoPass]

\* ---- the program as a state machine --------------------------------------
Live(w) == {e \in 0 .. Size(w.m_entities) - 1 : At(w.m_entities, e).valid}

\* op records the last call that returned: its name, arguments and result,
\* and what the hierarchy around its entity was when it was made
NoOp == [name |-> "none", entity |-> INVALID_ENTITY, parent |-> INVALID_ENTITY,
         ret |-> INVALID_ENTITY, error |-> FALSE,
         old_parent |-> INVALID_ENTITY, old_children |-> {}, events |-> <<>>]

ChildrenOf(w, entity) == {c \in Live(w) : getParent(w, c) = entity}

\* ---- the Animator phase of update: the root motion of the animators in parallel ----
\* the entities of the world, each with an animator that uses root motion
MaxParEntities == 2

MaxRootMotion == 1

RootMotions ==
    {LocalRigidTransform(pos, rot) : pos \in 0 .. MaxRootMotion, rot \in {1, -1}}

\* updateAnimator, lines 648-650: tr moved by the root motion of the animator
applyRootMotion(tr, root_motion) ==
    [tr EXCEPT !.pos = tr.pos + tr.rot * root_motion.pos,
               !.rot = root_motion.rot * tr.rot]

\* updateAnimator, lines 647-652, run by one thread alone
updateRootMotion(w, entity, root_motion) ==
    setTransform(w, entity, applyRootMotion(getTransform(w, entity), root_motion))

\* the job of jobs::forEach for the animator of an entity, at its first step
Job(root_motion) ==
    [root_motion |-> root_motion, pc |-> "getTransform", tr |-> IdentityTransform,
     child |-> INVALID_ENTITY]

\* transformEntity(entity, true), lines 156-163, on the transform the job re-reads
updateLocal(w, entity, my_transform) ==
    IF isValid(getParent(w, entity))
    THEN [w EXCEPT !.m_hierarchy =
            SetAt(w.m_hierarchy, At(w.m_entities, entity).hierarchy,
                  [At(w.m_hierarchy, At(w.m_entities, entity).hierarchy)
                      EXCEPT !.local_transform =
                          TransformMul(TransformInverted(getTransform(w, getParent(w, entity))),
                                       my_transform)])]
    ELSE w

\* transformEntity, lines 168-173: one turn of the loop over the children
transformChild(w, my_transform, child) ==
    transformEntity([w EXCEPT !.m_transforms =
                        SetAt(w.m_transforms, child,
                              TransformMul(my_transform,
                                           At(w.m_hierarchy,
                                              At(w.m_entities, child).hierarchy).local_transform))],
                    child, FALSE, Fuel(w))

\* the updates of the entities of order, one after another
RECURSIVE updateInOrder(_, _, _)
updateInOrder(w, jobs, order) ==
    IF order = <<>> THEN w
    ELSE updateInOrder(updateRootMotion(w, Head(order), At(jobs, Head(order)).root_motion).w,
                       jobs, Tail(order))

\* ---- AnimationModuleImpl::update: animables, property animators, animators --------
\* the entities that can carry an animable or an animator, and the updates of a run
NumSceneEntities == 2

MaxPropertyAnimators == 1

MaxFrames == 2

\* The scene before any component is created. An entity has a pose that can be
\* locked only while it has a ready model (pose_ok); pose names the last writer of
\* the pose, lock counts the holders of its pose lock.
NewScene ==
    [entities |-> [e \in 1 .. NumSceneEntities |->
                      [pose_ok |-> FALSE, pose |-> "rest", lock |-> 0,
                       unlocked_write |-> FALSE, transform |-> IdentityTransform]],
     m_animables |-> <<>>,
     m_property_animators |-> <<>>,
     m_animators |-> <<>>,
     phase |-> "idle",
     last |-> "none",
     frames |-> 0]

\* a job of jobs::forEach that no worker has taken yet
PendingJob == [pc |-> "pending", early |-> FALSE, before |-> <<>>]

\* RenderModule::lockPose and unlockPose
lockPose(s, e) == [s EXCEPT !.entities[e].lock = @ + 1]

unlockPose_none(s, e) == s

unlockPose(s, e) == [s EXCEPT !.entities[e].lock = @ - 1]

\* a write of the pose of entity e
writePose(s, e, writer) ==
    [s EXCEPT !.entities[e].pose = writer,
              !.entities[e].unlocked_write = @ \/ s.entities[e].lock = 0]

\* mutant of forEach_finished: forEach returns while jobs are still running
forEach_noWait(jobs) == TRUE

\* jobs::forEach returns when every job has run to its end
forEach_finished(jobs) == \A i \in DOMAIN jobs : jobs[i].job.pc = "done"

\* updateAnimable, lines 473-481, and updateAnimator, lines 616-628: the job
\* returns early, or holds the pose lock of its entity
update_lockPose(s, kind, i) ==
    IF s[kind][i].ready /\ s.entities[s[kind][i].entity].pose_ok
    THEN lockPose([s EXCEPT ![kind][i].job.pc = "locked",
                            ![kind][i].job.before = s.entities[s[kind][i].entity]],
                  s[kind][i].entity)
    ELSE [s EXCEPT ![kind][i].job.pc = "done", ![kind][i].job.early = TRUE,
                   ![kind][i].job.before = s.entities[s[kind][i].entity]]

\* updateAnimable, lines 483-502
updateAnimable_pose(s, i) ==
    writePose([s EXCEPT !.m_animables[i].job.pc = "written"],
              s.m_animables[i].entity, "animable")

\* updateAnimator, lines 630-643: the controller returns root_motion
updateAnimator_pose(s, i, root_motion) ==
    writePose([s EXCEPT !.m_animators[i].job.pc = "written",
                        !.m_animators[i].root_motion = root_motion],
              s.m_animators[i].entity, "animator")

\* updateAnimable, line 504
updateAnimable_unlock(s, i) ==
    unlockPose([s EXCEPT !.m_animables[i].job.pc = "done"], s.m_animables[i].entity)

\* updateAnimator, lines 645-652: every animator of the model uses root motion
updateAnimator_unlock(s, i) ==
    [unlockPose([s EXCEPT !.m_animators[i].job.pc = "done"], s.m_animators[i].entity)
        EXCEPT !.entities[s.m_animators[i].entity].transform =
                   applyRootMotion(@, s.m_animators[i].root_motion)]

\* updatePropertyAnimators: the loop over m_property_animators, serial
updatePropertyAnimators(s) ==
    [s EXCEPT !.m_property_animators =
                  [i \in DOMAIN @ |-> [@[i] EXCEPT !.time = @ + 1, !.updated = TRUE]]]

\* update, lines 826-828: nothing when the game is not running; else the
\* jobs of the animables are handed to the workers
update_begin(s, m_is_game_running) ==
    IF ~m_is_game_running THEN [s EXCEPT !.last = "not running"]
    ELSE [s EXCEPT !.last = "running", !.phase = "animables",
                   !.m_animables = [i \in DOMAIN @ |-> [@[i] EXCEPT !.job = PendingJob]],
                   !.m_animators = [i \in DOMAIN @ |-> [@[i] EXCEPT !.job = PendingJob]],
                   !.m_property_animators =
                       [i \in DOMAIN @ |-> [@[i] EXCEPT !.updated = FALSE]]]

\* update, lines 829-831: updateAnimables has returned, the property animators
\* are updated and the jobs of the animators are handed to the workers
update_animators(s) == [updatePropertyAnimators(s) EXCEPT !.phase = "animators"]

\* update returns
update_end(s) == [s EXCEPT !.phase = "idle", !.frames = @ + 1]

\* ---- the typed inputs of an animator ----------------------------------------------
\* the inputs a controller declares, and the input indexes a caller passes
MaxInputs == 2

MaxInputIdx == 2

ValueTypes == {"FLOAT", "BOOL", "I32"}

\* the outcome of a setter: the inputs of the runtime context after the call, and
\* the access outside an object the call made, if any
SetterResult(inputs, fault) == [inputs |-> inputs, fault |-> fault]

\* setAnimatorInput(entity, input_idx, value), lines 520-528, 530-538 and 571-579;
\* type is the type of value. m_inputs is <<>> for an animator without a controller.
setAnimatorInput(a, input_idx, type, value) ==
    IF ~a.has_ctx THEN SetterResult(a.inputs, "none")
    ELSE IF input_idx >= Len(a.m_inputs) THEN SetterResult(a.inputs, "none")
    ELSE IF a.m_inputs[input_idx + 1] # type THEN SetterResult(a.inputs, "none")
    ELSE SetterResult([a.inputs EXCEPT ![input_idx + 1] = value], "none")

\* setAnimatorFloatInput, setAnimatorI32Input and setAnimatorBoolInput, lines
\* 149-188: animator.resource and animator.ctx are used without a test, and
\* m_inputs is indexed without a test of input_idx
setAnimatorTypedInput(a, input_idx, type, value) ==
    IF ~a.has_resource THEN SetterResult(a.inputs, "null access")
    ELSE IF input_idx >= Len(a.m_inputs) THEN SetterResult(a.inputs, "out of range")
    ELSE IF a.m_inputs[input_idx + 1] # type THEN SetterResult(a.inputs, "none")
    ELSE IF ~a.has_ctx THEN SetterResult(a.inputs, "null access")
    ELSE SetterResult([a.inputs EXCEPT ![input_idx + 1] = value], "none")

\* ---- serialization of the nodes of a controller (animation/nodes.cpp) -------------
\* The blob of a node is the sequence of the fields written; a field carries the
\* format it was written in, and a read in another format than the one written
\* does not return the value written.  A node is the record of its configuration:
\* m_name and m_events of Node and the members its class serializes.
MaxNodeChildren == 2

Field(t, v) == [t |-> t, v |-> v]

NodeTypes == {"animation", "blend1d", "blend2d", "layers", "condition", "select", "group"}

\* Node::serialize, lines 1126-1130
Node_serialize(n) ==
    <<Field("string", n.m_name), Field("u32", Len(n.m_events)), Field("bytes", n.m_events)>>

RECURSIVE serializeNode(_)
RECURSIVE serializeChildren(_, _)
\* the fields of the children from number i on, as the loops of
\* LayersNode::serialize (lines 783-788), SelectNode::serialize (lines 934-938)
\* and GroupNode::serialize (lines 1088-1093) write them
serializeChildren(n, i) ==
    IF i > Len(n.m_children) THEN <<>>
    ELSE LET child == n.m_children[i]
         IN (IF n.type = "layers"
             THEN <<Field("string", child.name), Field("u32", child.mask),
                    Field("type", child.node.type)>>
             ELSE IF n.type = "select"
             THEN <<Field("u32", child.max_value), Field("type", child.node.type)>>
             ELSE <<Field("type", child.node.type), Field("u32", child.flags),
                    Field("string", child.condition_str)>>)
            \o serializeNode(child.node) \o serializeChildren(n, i + 1)

\* the bool and, for a branch that is set, its type and its blob, lines 595-604
serializeBranch(node) ==
    IF node.type = "null" THEN <<Field("bool", FALSE)>>
    ELSE <<Field("bool", TRUE), Field("type", node.type)>> \o serializeNode(node)

\* serialize of the class of n: AnimationNode (lines 715-719), Blend1DNode (lines
\* 477-482), Blend2DNode (lines 356-361), LayersNode (lines 781-789, which does not
\* call Node::serialize), ConditionNode (lines 589-605), SelectNode (lines 929-939)
\* and GroupNode (lines 1084-1097)
serializeNode(n) ==
    IF n.type = "animation"
    THEN Node_serialize(n) \o <<Field("u32", n.m_slot), Field("u32", n.m_flags)>>
    ELSE IF n.type = "blend1d"
    THEN Node_serialize(n) \o <<Field("u32", n.m_input_index),
                                Field("u32", Len(n.m_children)), Field("bytes", n.m_children)>>
    ELSE IF n.type = "blend2d"
    THEN Node_serialize(n) \o <<Field("u32", n.m_x_input_index),
                                Field("u32", n.m_y_input_index), Field("array", n.m_children)>>
    ELSE IF n.type = "layers"
    THEN <<Field("u32", Len(n.m_children))>> \o serializeChildren(n, 1)
    ELSE IF n.type = "condition"
    THEN Node_serialize(n) \o <<Field("String", n.m_condition_str),
                                Field("u32", n.m_blend_length)>>
         \o serializeBranch(n.m_true_node) \o serializeBranch(n.m_false_node)
    ELSE IF n.type = "select"
    THEN Node_serialize(n) \o <<Field("u32", n.m_blend_length), Field("u32", n.m_input_index),
                                Field("u32", Len(n.m_children))>>
         \o serializeChildren(n, 1)
    ELSE Node_serialize(n) \o <<Field("u32", n.m_blend_length), Field("u32", Len(n.m_children))>>
         \o serializeChildren(n, 1)
         \o <<Field("u32", Len(n.m_transitions)), Field("bytes", n.m_transitions)>>

\* the state of a read: the values read so far, the read cursor, and whether every
\* field was read in the format it was written in
Reader(vals, pos, ok) == [vals |-> vals, pos |-> pos, ok |-> ok]

\* InputMemoryStream read of the fields of the formats types, one after another
RECURSIVE readFields(_, _, _)
readFields(s, r, types) ==
    IF types = <<>> \/ ~r.ok THEN r
    ELSE IF r.pos > Len(s) \/ s[r.pos].t # Head(types) THEN Reader(r.vals, r.pos, FALSE)
    ELSE readFields(s, Reader(Append(r.vals, s[r.pos].v), r.pos + 1, TRUE), Tail(types))

\* read of count elements into an array resized to count
readBytes(s, r, count) ==
    IF ~r.ok \/ r.pos > Len(s) \/ s[r.pos].t # "bytes" THEN Reader(r.vals, r.pos, FALSE)
    ELSE IF Len(s[r.pos].v) # count THEN Reader(r.vals, r.pos, FALSE)
    ELSE Reader(Append(r.vals, s[r.pos].v), r.pos + 1, TRUE)

\* the outcome of a deserialize: the node, the read cursor, and ok
Deserialized(node, pos, ok) == [node |-> node, pos |-> pos, ok |-> ok]

Misread(pos) == Deserialized([type |-> "misread"], pos, FALSE)

\* Node::deserialize at the latest version (lines 1132-1139): name, then the
\* events; the result has the values <<m_name, size, m_events>>
Node_deserialize(s, pos) ==
    \* stream.readString, then read<u32>, resize and read of size bytes
    LET r == readFields(s, Reader(<<>>, pos, TRUE), <<"string", "u32">>)
    IN IF ~r.ok THEN r ELSE readBytes(s, r, r.vals[2])

RECURSIVE deserializeNode(_, _, _)
RECURSIVE deserializeChildren(_, _, _, _, _)
\* the loops of LayersNode::deserialize (lines 795-803), SelectNode::deserialize
\* (lines 919-926) and GroupNode::deserialize (lines 1105-1117, flags read as at
\* the latest version): count more children are read after those of children
deserializeChildren(s, pos, type, count, children) ==
    IF count = 0 THEN Deserialized(children, pos, TRUE)
    ELSE LET r == readFields(s, Reader(<<>>, pos, TRUE),
                             IF type = "layers" THEN <<"string", "u32", "type">>
                             ELSE IF type = "select" THEN <<"u32", "type">>
                             ELSE <<"type", "u32", "string">>)
         IN IF ~r.ok THEN Misread(r.pos)
            ELSE LET d == deserializeNode(s, r.pos, IF type = "layers" THEN r.vals[3]
                                                    ELSE IF type = "select" THEN r.vals[2]
                                                    ELSE r.vals[1])
                     child == IF type = "layers"
                              THEN [name |-> r.vals[1], mask |-> r.vals[2], node |-> d.node]
                              ELSE IF type = "select"
                              THEN [max_value |-> r.vals[1], node |-> d.node]
                              ELSE [flags |-> r.vals[2], condition_str |-> r.vals[3],
                                    node |-> d.node]
                 IN IF ~d.ok THEN Misread(d.pos)
                    ELSE deserializeChildren(s, d.pos, type, count - 1,
                                             Append(children, child))

\* a branch of a Condition node, lines 613-626
deserializeBranch(s, pos) ==
    LET b == readFields(s, Reader(<<>>, pos, TRUE), <<"bool">>)
    IN IF ~b.ok THEN Misread(b.pos)
       ELSE IF ~b.vals[1] THEN Deserialized([type |-> "null"], b.pos, TRUE)
       ELSE LET t == readFields(s, Reader(<<>>, b.pos, TRUE), <<"type">>)
            IN IF ~t.ok THEN Misread(t.pos) ELSE deserializeNode(s, t.pos, t.vals[1])

\* the members a class reads after Node::deserialize
TypeFields(type) ==
    IF type = "animation" THEN <<"u32", "u32">>
    ELSE IF type = "blend1d" THEN <<"u32", "u32">>
    ELSE IF type = "blend2d" THEN <<"u32", "u32", "array">>
    ELSE IF type = "layers" THEN <<"u32">>
    ELSE IF type = "condition" THEN <<"String", "u32">>
    ELSE IF type = "select" THEN <<"u32", "u32", "u32">>
    ELSE <<"u32", "u32">>

\* Node::create(type) and deserialize of the class at the latest version:
\* AnimationNode (lines 721-725), Blend1DNode (lines 484-491), Blend2DNode (lines
\* 363-369), LayersNode (lines 791-804), ConditionNode (lines 607-627), SelectNode
\* (lines 912-927) and GroupNode (lines 1099-1124)
deserializeNode(s, pos, type) ==
    LET base == Node_deserialize(s, pos)
        r == readFields(s, Reader(<<>>, base.pos, base.ok), TypeFields(type))
        node == [type |-> type, m_name |-> base.vals[1], m_events |-> base.vals[3]]
    IN IF ~base.ok \/ ~r.ok THEN Misread(r.pos)
       ELSE IF type = "animation"
       THEN Deserialized(node @@ [m_slot |-> r.vals[1], m_flags |-> r.vals[2]], r.pos, TRUE)
       ELSE IF type = "blend1d"
       THEN LET c == readBytes(s, Reader(<<>>, r.pos, TRUE), r.vals[2])
            IN IF ~c.ok THEN Misread(c.pos)
               ELSE Deserialized(node @@ [m_input_index |-> r.vals[1],
                                          m_children |-> c.vals[1]], c.pos, TRUE)
       ELSE IF type = "blend2d"
       THEN Deserialized(node @@ [m_x_input_index |-> r.vals[1],
                                  m_y_input_index |-> r.vals[2],
                                  m_children |-> r.vals[3]], r.pos, TRUE)
       ELSE IF type = "layers"
       THEN LET c == deserializeChildren(s, r.pos, type, r.vals[1], <<>>)
            IN IF ~c.ok THEN Misread(c.pos)
               ELSE Deserialized(node @@ [m_children |-> c.node], c.pos, TRUE)
       ELSE IF type = "condition"
       THEN LET t == deserializeBranch(s, r.pos)
                f == deserializeBranch(s, t.pos)
            IN IF ~t.ok THEN Misread(t.pos)
               ELSE IF ~f.ok THEN Misread(f.pos)
               ELSE Deserialized(node @@ [m_condition_str |-> r.vals[1],
                                          m_blend_length |-> r.vals[2],
                                          m_true_node |-> t.node,
                                          m_false_node |-> f.node], f.pos, TRUE)
       ELSE IF type = "select"
       THEN LET c == deserializeChildren(s, r.pos, type, r.vals[3], <<>>)
            IN IF ~c.ok THEN Misread(c.pos)
               ELSE Deserialized(node @@ [m_blend_length |-> r.vals[1],
                                          m_input_index |-> r.vals[2],
                                          m_children |-> c.node], c.pos, TRUE)
       ELSE LET c == deserializeChildren(s, r.pos, type, r.vals[2], <<>>)
                n == readFields(s, Reader(<<>>, c.pos, c.ok), <<"u32">>)
                t == IF n.ok THEN readBytes(s, Reader(<<>>, n.pos, TRUE), n.vals[1]) ELSE n
            IN IF ~c.ok THEN Misread(c.pos)
               ELSE IF ~t.ok THEN Misread(t.pos)
               ELSE Deserialized(node @@ [m_blend_length |-> r.vals[1],
                                          m_children |-> c.node,
                                          m_transitions |-> t.vals[1]], t.pos, TRUE)

\* ---- the timeline events of a node (animation/nodes.cpp) --------------------------
\* m_events is the sequence of the rel_time of the events of a node, each a u16
\* fraction of the clip (0xffFF * time / length); ctx.events is the sequence of
\* the numbers of the events emitted.
MaxRelTime == 65535     \* 0xffFF

MaxEventTicks == 5      \* number of updates of the Animation node

\* the u16 from and to of lines 649-650
relTime(t, loop_length) == (MaxRelTime * t) \div loop_length

\* the loop of lines 653-660 from event number i on
RECURSIVE emitWindow(_, _, _, _)
emitWindow(m_events, from, to, i) ==
    IF i > Len(m_events) THEN <<>>
    ELSE (IF m_events[i] >= from /\ m_events[i] < to THEN <<i>> ELSE <<>>)
         \o emitWindow(m_events, from, to, i + 1)

\* Node::emitEvents, lines 641-667: the events written to ctx.events
RECURSIVE emitEvents(_, _, _, _)
emitEvents(m_events, old_time, new_time, loop_length) ==
    IF m_events = <<>> THEN <<>>
    ELSE LET t0 == old_time % loop_length
             t1 == new_time % loop_length
         IN IF t1 >= t0
            THEN emitWindow(m_events, relTime(t0, loop_length), relTime(t1, loop_length), 1)
            ELSE emitEvents(m_events, t0, loop_length, loop_length + OneSecond)
                 \o emitEvents(m_events, 0, t1, loop_length)

\* AnimationNode::update, lines 669-689: the time written to ctx.data and the
\* events emitted, for a clip that is ready
AnimationNode_events(node, t, time_delta, len) ==
    LET prev_t == IF node.looped THEN t ELSE Minimum({t, len})
        new_t == IF node.looped THEN t + time_delta ELSE Minimum({t + time_delta, len})
    IN [t |-> new_t, old |-> prev_t, events |-> emitEvents(node.m_events, prev_t, new_t, len)]

\* ---- the inverse kinematics of an animator --------------------------------------------
\* Animator::inverse_kinematics has 4 slots; a weight is a number of halves, 0 ..
\* WeightDen.  The pose keeps, for the chain of every slot, whether updateIK has
\* blended the solved chain into its bones in this tick.
NumIK == 4              \* Animator::inverse_kinematics[4]

WeightDen == 2          \* the weights are 0, 1/2 and 1

clamp(x, lo, hi) == IF x < lo THEN lo ELSE IF x > hi THEN hi ELSE x

\* setAnimatorIK, lines 130-136 (the target is not modelled)
setAnimatorIK(inverse_kinematics, index, weight) ==
    [inverse_kinematics EXCEPT ![index + 1] = clamp(weight, 0, WeightDen)]

\* the loop of updateAnimator, lines 637-641, from slot idx on: it ends at the
\* first slot with weight 0; updateIK blends the chain into the pose with the
\* weight of the slot
RECURSIVE updateAnimator_ik(_, _, _)
updateAnimator_ik(inverse_kinematics, pose, idx) ==
    IF idx >= NumIK THEN pose
    ELSE IF inverse_kinematics[idx + 1] = 0 THEN pose
    ELSE updateAnimator_ik(inverse_kinematics, [pose EXCEPT ![idx + 1] = "ik"], idx + 1)

\* ---- the time of an Animable ----------------------------------------------------------
\* mutant of updateAnimable_time: a negative time_delta plays forward
updateAnimable_forward(t, time_delta, l) ==
    IF time_delta > 0 THEN (t + time_delta) % l
    ELSE (t + ((0 - time_delta) % l)) % l

\* updateAnimable, lines 492-503: the t of the Animable after the update, l
\* being the length of the animation; Time is unsigned
updateAnimable_time(t, time_delta, l) ==
    IF time_delta > 0 THEN (t + time_delta) % l
    ELSE (t + l - ((0 - time_delta) % l)) % l

\* updateAnimable, lines 471-505: ready stands for an animation and a model that
\* are ready and a pose that is locked
updateAnimable(animable, time_delta, ready) ==
    IF ~ready THEN animable
    ELSE [animable EXCEPT !.time = updateAnimable_time(animable.time, time_delta,
                                                       animable.length)]

\* ---- AnimationModuleImpl: the controllers and the runtime contexts --------------
\* the animators of the module and the controllers a path can name
MaxAnimators == 2

NumControllers == 2

\* A controller is named by its path 1 .. NumControllers, nullptr and the empty
\* path are 0. A runtime context is named by the controller that created it,
\* nullptr is 0.
\* An animation or a property animation is named by its path 1 .. NumAnimations;
\* animations is the number of references the module holds to each, and an
\* Animable or a PropertyAnimator is the animation it points to (0 for nullptr).
NumAnimations == 2

MaxAnimables == 2

NewModule ==
    [m_is_game_running |-> FALSE,
     m_animators |-> <<>>,
     m_animables |-> <<>>,
     m_property_animators |-> <<>>,
     resources |-> [r \in 1 .. NumControllers |->
                       [state |-> "EMPTY", ref_count |-> 0, observers |-> 0]],
     animations |-> [r \in 1 .. NumAnimations |-> 0],
     log |-> <<>>]

\* animator.ctx = animator.resource->createRuntime(...); old is the context the
\* assignment overwrites
createContext(m, i) ==
    [m EXCEPT !.m_animators[i].ctx = m.m_animators[i].resource,
              !.log = Append(@, [call |-> "createRuntime", animator |-> i,
                                 resource |-> m.m_animators[i].resource,
                                 old |-> m.m_animators[i].ctx])]

\* animator.resource->destroyRuntime(*animator.ctx); animator.ctx = nullptr
destroyContext(m, i) ==
    [m EXCEPT !.m_animators[i].ctx = 0,
              !.log = Append(@, [call |-> "destroyRuntime", animator |-> i,
                                 resource |-> m.m_animators[i].resource,
                                 old |-> m.m_animators[i].ctx])]

\* onControllerResourceChanged: the loop over m_animators from animator i on
RECURSIVE onControllerResourceChanged(_, _, _, _)
onControllerResourceChanged(m, new_state, resource, i) ==
    IF i > Len(m.m_animators) THEN m
    ELSE onControllerResourceChanged(
             IF m.m_animators[i].resource # resource THEN m
             ELSE IF new_state = "READY"
             THEN IF m.m_animators[i].ctx = 0 THEN createContext(m, i) ELSE m
             ELSE IF m.m_animators[i].ctx # 0 THEN destroyContext(m, i) ELSE m,
             new_state, resource, i + 1)

\* the state of a resource changes: its observers are called
Resource_setState(m, r, new_state) ==
    IF m.resources[r].state = new_state THEN m
    ELSE IF m.resources[r].observers > 0
    THEN onControllerResourceChanged([m EXCEPT !.resources[r].state = new_state],
                                     new_state, r, 1)
    ELSE [m EXCEPT !.resources[r].state = new_state]

\* mutant of unloadResource: the reference is kept
unloadResource_keep(m, res) == m

\* unloadResource(res): decRefCount, which unloads the resource with the last reference
unloadResource(m, res) ==
    IF res = 0 THEN m
    ELSE IF m.resources[res].ref_count = 1
    THEN Resource_setState([m EXCEPT !.resources[res].ref_count = 0], res, "EMPTY")
    ELSE [m EXCEPT !.resources[res].ref_count = @ - 1]

\* loadController(path): the resource of the path, with one more reference
loadController(m, path) ==
    IF path = 0 THEN m ELSE [m EXCEPT !.resources[path].ref_count = @ + 1]

\* Resource::onLoaded: binds the observer and calls it at once when the resource is ready
onLoaded(m, r) ==
    IF m.resources[r].state = "READY"
    THEN onControllerResourceChanged([m EXCEPT !.resources[r].observers = @ + 1],
                                     "READY", r, 1)
    ELSE [m EXCEPT !.resources[r].observers = @ + 1]

\* setSource, lines 236-242: the context and the observer of the old resource
setSource_release(m, a) ==
    IF m.m_animators[a].resource = 0 THEN m
    ELSE [(IF m.m_animators[a].ctx # 0 THEN destroyContext(m, a) ELSE m)
             EXCEPT !.resources[m.m_animators[a].resource].observers = @ - 1]

\* setSource, lines 243-247: the new resource reference
setSource_install(m, a, res) ==
    IF res = 0
    THEN [m EXCEPT !.m_animators[a].resource = res,
                   !.log = Append(@, [call |-> "install", animator |-> a,
                                      resource |-> res, old |-> m.m_animators[a].ctx])]
    ELSE onLoaded([m EXCEPT !.m_animators[a].resource = res,
                            !.log = Append(@, [call |-> "install", animator |-> a,
                                               resource |-> res,
                                               old |-> m.m_animators[a].ctx])], res)

\* setSource(animator, res)
setSource(m, a, res) ==
    IF m.m_animators[a].resource = res THEN m
    ELSE setSource_install(setSource_release(m, a), a, res)

\* setAnimatorSource, lines 405-407
setAnimatorSource_create(m, a) ==
    IF m.m_animators[a].resource # 0
       /\ m.resources[m.m_animators[a].resource].state = "READY"
       /\ m.m_is_game_running
    THEN createContext(m, a)
    ELSE m

\* setAnimatorSource(entity, path), a being the animator of the entity
setAnimatorSource(m, a, path) ==
    setAnimatorSource_create(
        setSource(loadController(unloadResource(m, m.m_animators[a].resource), path),
                  a, path),
        a)

\* unloadResource(res) of an animation or a property animation
unloadAnimation(m, res) ==
    IF res = 0 THEN m ELSE [m EXCEPT !.animations[res] = @ - 1]

\* loadAnimation(path) and loadPropertyAnimation(path): the resource of the path
\* with one more reference, nullptr for the empty path
loadAnimation(m, path) ==
    IF path = 0 THEN m ELSE [m EXCEPT !.animations[path] = @ + 1]

\* setAnimation(entity, path), lines 462-468, i being the Animable of the entity
setAnimation(m, i, path) ==
    [loadAnimation(unloadAnimation(m, m.m_animables[i]), path)
        EXCEPT !.m_animables[i] = path]

\* setPropertyAnimation(entity, path), lines 445-451
setPropertyAnimation(m, i, path) ==
    [loadAnimation(unloadAnimation(m, m.m_property_animators[i]), path)
        EXCEPT !.m_property_animators[i] = path]

\* the sequence without its element number i
Erase(seq, i) == [k \in 1 .. Len(seq) - 1 |-> IF k < i THEN seq[k] ELSE seq[k + 1]]

\* destroyAnimable(entity), lines 281-287
destroyAnimable(m, i) ==
    [unloadAnimation(m, m.m_animables[i]) EXCEPT !.m_animables = Erase(@, i)]

\* destroyPropertyAnimator(entity), lines 271-278
destroyPropertyAnimator(m, i) ==
    [unloadAnimation(m, m.m_property_animators[i])
        EXCEPT !.m_property_animators = Erase(@, i)]

\* m_animators.swapAndPop(idx)
Animators_swapAndPop(animators, idx) ==
    [k \in 1 .. Len(animators) - 1 |->
        IF k = idx THEN animators[Len(animators)] ELSE animators[k]]

\* destroyAnimator(entity), lines 290-301, idx being the animator of the entity
destroyAnimator(m, idx) ==
    [setSource(unloadResource(m, m.m_animators[idx].resource), idx, 0)
        EXCEPT !.m_animators = Animators_swapAndPop(@, idx)]

\* deserialize, lines 352-369: an animator with the controller of the path is
\* read; setSource is called on the local Animator before it is pushed
deserializeAnimator(m, path) ==
    [(IF path = 0 THEN m ELSE onLoaded(loadController(m, path), path))
        EXCEPT !.m_animators = Append(@, [resource |-> path, ctx |-> 0])]

\* deserialize, lines 333-369: one Animable, one PropertyAnimator and one Animator
\* are read from the stream
AnimationModule_deserialize(m, animation, property_animation, controller) ==
    deserializeAnimator(
        [loadAnimation(loadAnimation(m, animation), property_animation)
            EXCEPT !.m_animables = Append(@, animation),
                   !.m_property_animators = Append(@, property_animation)],
        controller)

\* ~AnimationModuleImpl, lines 113-126: the references of the records from
\* number i on are released
RECURSIVE unloadAnimations(_, _, _)
unloadAnimations(m, records, i) ==
    IF i > Len(records) THEN m
    ELSE unloadAnimations(unloadAnimation(m, records[i]), records, i + 1)

RECURSIVE unloadAnimators(_, _)
unloadAnimators(m, i) ==
    IF i > Len(m.m_animators) THEN m
    ELSE unloadAnimators(setSource(unloadResource(m, m.m_animators[i].resource), i, 0),
                         i + 1)

\* ~AnimationModuleImpl; the records go with the module
AnimationModule_destroy(m) ==
    [unloadAnimators(unloadAnimations(unloadAnimations(m, m.m_property_animators, 1),
                                      m.m_animables, 1), 1)
        EXCEPT !.m_animators = <<>>, !.m_animables = <<>>, !.m_property_animators = <<>>,
               !.m_is_game_running = FALSE]

\* updateAnimator(animator, time_delta), lines 616-619
updateAnimator_runtime(m, a) ==
    IF m.m_animators[a].resource = 0
       \/ m.resources[m.m_animators[a].resource].state # "READY"
    THEN m
    ELSE IF m.m_animators[a].ctx = 0 THEN createContext(m, a) ELSE m

\* update(time_delta): the animators from a on
RECURSIVE AnimationModule_update(_, _)
AnimationModule_update(m, a) ==
    IF ~m.m_is_game_running \/ a > Len(m.m_animators) THEN m
    ELSE AnimationModule_update(updateAnimator_runtime(m, a), a + 1)

\* call: a function of the animation nodes called on its own, with its
\* arguments and, once it has returned, its results
NoCall == [name |-> "none", done |-> FALSE]

Init ==
    /\ world = NewWorld
    /\ op = NoOp
    /\ crashed = FALSE
    /\ stream = <<>>
    /\ loaded = [done |-> FALSE]
    /\ animator = NoAnimator
    /\ call = NoCall
    /\ module = NewModule
    /\ scene = NewScene

UnchangedOthers == UNCHANGED <<stream, loaded, animator, call, module, scene>>

\* a call that does not return ends the program
Crash == crashed' = TRUE /\ UNCHANGED <<world, op>>

\* createEntity(position, identity rotation), while at most slots entity
\* slots are in use
CreateEntity(slots, positions) ==
    /\ ~crashed
    /\ world.m_first_free_slot >= 0 \/ Size(world.m_entities) < slots
    /\ \E position \in positions :
          \E r \in {createEntity(world, position, 1)} :
             /\ world' = r.w
             /\ op' = [NoOp EXCEPT !.name = "createEntity", !.ret = r.ret]
    /\ UNCHANGED crashed
    /\ UnchangedOthers

EmplaceEntity(slots) ==
    /\ ~crashed
    /\ \E entity \in 0 .. slots - 1 :
          /\ ~hasEntity(world, entity)
          /\ world' = emplaceEntity(world, entity)
          /\ op' = [NoOp EXCEPT !.name = "emplaceEntity", !.entity = entity]
    /\ UNCHANGED crashed
    /\ UnchangedOthers

DestroyEntity ==
    /\ ~crashed
    /\ \E entity \in Live(world) :
          \E r \in {destroyEntity(world, entity)} :
             IF r.hang THEN Crash
             ELSE /\ world' = r.w
                  /\ op' = [NoOp EXCEPT !.name = "destroyEntity", !.entity = entity,
                                        !.old_parent = getParent(world, entity),
                                        !.old_children = ChildrenOf(world, entity),
                                        !.events = r.events]
                  /\ UNCHANGED crashed
    /\ UnchangedOthers

SetParent ==
    /\ ~crashed
    /\ \E child \in Live(world), new_parent \in Live(world) \cup {INVALID_ENTITY},
          garbage \in GarbageTransforms :
          \E r \in {setParent(world, new_parent, child, garbage)} :
             IF r.hang THEN Crash
             ELSE /\ world' = r.w
                  /\ op' = [NoOp EXCEPT !.name = "setParent", !.entity = child,
                                        !.parent = new_parent, !.error = r.error,
                                        !.old_parent = getParent(world, child)]
                  /\ UNCHANGED crashed
    /\ UnchangedOthers

\* Spec: entity life cycle and hierarchy
Next ==
    \/ CreateEntity(MaxEntities, {0})
    \/ DestroyEntity
    \/ SetParent

Spec == Init /\ [][Next]_vars

\* createComponent(type, entity): the create method of the scene makes the
\* component and calls World::onComponentCreated
CreateComponent ==
    /\ ~crashed
    /\ \E entity \in Live(world), type \in 0 .. MAX_TYPES_COUNT - 1 :
          /\ type \notin At(world.m_entities, entity).components
          /\ world' = onComponentCreated(world, entity, type)
          /\ op' = [NoOp EXCEPT !.name = "createComponent", !.entity = entity]
    /\ UNCHANGED crashed
    /\ UnchangedOthers

\* SpecCmp: entities with components in a hierarchy
NextCmp ==
    \/ CreateEntity(MaxCmpEntities, {0})
    \/ CreateComponent
    \/ SetParent
    \/ DestroyEntity

SpecCmp == Init /\ [][NextCmp]_vars

\* createPartition(name) followed by setActivePartition of the new partition
CreatePartition ==
    /\ ~crashed
    /\ Size(world.m_partitions) < MaxPartitions
    /\ world' = setActivePartition(createPartition(world), world.m_partition_generator)
    /\ op' = [NoOp EXCEPT !.name = "createPartition", !.ret = world.m_partition_generator]
    /\ UNCHANGED crashed
    /\ UnchangedOthers

\* setActivePartition(partition) with the handle of another partition
SetActivePartition ==
    /\ ~crashed
    /\ \E i \in 0 .. Size(world.m_partitions) - 1 :
          /\ At(world.m_partitions, i) # world.m_active_partition
          /\ world' = setActivePartition(world, At(world.m_partitions, i))
          /\ op' = [NoOp EXCEPT !.name = "setActivePartition",
                                !.ret = At(world.m_partitions, i)]
    /\ UNCHANGED crashed
    /\ UnchangedOthers

\* SpecPart: entities created in more than one partition
NextPart ==
    \/ CreateEntity(MaxPartEntities, {0})
    \/ EmplaceEntity(MaxPartEntities)
    \/ DestroyEntity
    \/ CreatePartition
    \/ SetActivePartition

SpecPart == Init /\ [][NextPart]_vars

\* SpecSlots: entity life cycle and the free list
NextSlots ==
    \/ CreateEntity(MaxSlots, {0})
    \/ EmplaceEntity(MaxSlots)
    \/ DestroyEntity

SpecSlots == Init /\ [][NextSlots]_vars

\* ---- transform operations as actions -----------------------------------------
\* every position of the world, cached ones included, is within the
\* modelled range
InRange(w) ==
    /\ \A i \in 1 .. Len(w.m_transforms) :
          w.m_transforms[i].pos \in (0 - MaxCoord) .. MaxCoord
    /\ \A i \in 1 .. Len(w.m_hierarchy) :
          w.m_hierarchy[i].local_transform.pos \in (0 - MaxCoord) .. MaxCoord

InputTransforms ==
    {[pos |-> p, rot |-> r, scale |-> Vec3(1)] : p \in 0 .. MaxInput, r \in {1, -1}}

\* r is the result of a transform call on entity: the call returned, or the
\* program ended in it
TransformResult(name, entity, r) ==
    IF r.hang THEN Crash
    ELSE /\ InRange(r.w)
         /\ world' = r.w
         /\ op' = [NoOp EXCEPT !.name = name, !.entity = entity]
         /\ UNCHANGED crashed

SetPosition ==
    /\ ~crashed
    /\ \E entity \in Live(world), pos \in 0 .. MaxInput :
          TransformResult("setPosition", entity, setPosition(world, entity, pos))
    /\ UnchangedOthers

SetTransform ==
    /\ ~crashed
    /\ \E entity \in Live(world), transform \in InputTransforms :
          TransformResult("setTransform", entity, setTransform(world, entity, transform))
    /\ UnchangedOthers

SetTransformKeepChildren ==
    /\ ~crashed
    /\ \E entity \in Live(world), transform \in InputTransforms :
          TransformResult("setTransformKeepChildren", entity,
                          setTransformKeepChildren(world, entity, transform))
    /\ UnchangedOthers

SetLocalPosition ==
    /\ ~crashed
    /\ \E entity \in Live(world), pos \in 0 .. MaxInput :
          \E r \in {setLocalPosition(world, entity, pos)} :
             IF r.assert THEN Crash
             ELSE TransformResult("setLocalPosition", entity, r)
    /\ UnchangedOthers

SetLocalTransform ==
    /\ ~crashed
    /\ \E entity \in Live(world), transform \in InputTransforms :
          \E r \in {setLocalTransform(world, entity, transform)} :
             IF r.assert THEN Crash
             ELSE TransformResult("setLocalTransform", entity, r)
    /\ UnchangedOthers

\* SpecTr: world transforms under the hierarchy
NextTr ==
    \/ CreateEntity(MaxTrEntities, {0})
    \/ SetParent
    \/ SetPosition
    \/ SetTransform
    \/ SetTransformKeepChildren
    \/ SetLocalPosition
    \/ SetLocalTransform

SpecTr == Init /\ [][NextTr]_vars

\* ---- local transforms of the entities without a parent ------------------------------
\* SpecLocal: the hierarchy, the setters of the world transform and the setters
\* of the local transform
NextLocal ==
    \/ CreateEntity(MaxTrEntities, {0})
    \/ DestroyEntity
    \/ SetParent
    \/ SetPosition
    \/ SetTransform
    \/ SetLocalPosition
    \/ SetLocalTransform

SpecLocal == Init /\ [][NextLocal]_vars

\* ---- saving and loading a world ------------------------------------------------
InputScales == {Vec3(1), <<1, -1, 1>>}
InputNames == {"a", "b"}

SetScale ==
    /\ ~crashed /\ ~loaded.done
    /\ \E entity \in Live(world), scale \in InputScales :
          TransformResult("setScale", entity, setScale(world, entity, scale))
    /\ UnchangedOthers

SetEntityName ==
    /\ ~crashed /\ ~loaded.done
    /\ \E entity \in Live(world), name \in InputNames :
          /\ world' = setEntityName(world, entity, name)
          /\ op' = [NoOp EXCEPT !.name = "setEntityName", !.entity = entity]
    /\ UNCHANGED crashed
    /\ UnchangedOthers

\* serialize the world, then deserialize the stream into a fresh World with
\* an empty entity map and vec3_scale = true
SaveLoad ==
    /\ ~crashed /\ ~loaded.done
    /\ \E s \in {serialize(world)} :
          \E d \in {deserialize(NewWorld, s, <<>>, TRUE)} :
             /\ stream' = s
             /\ loaded' = [done |-> TRUE, w |-> d.w, map |-> d.map, pos |-> d.pos]
    /\ op' = [NoOp EXCEPT !.name = "serialize"]
    /\ UNCHANGED <<world, crashed, animator, call, module, scene>>

\* SpecSer: build a world, save it, load it into a fresh world
NextSer ==
    \/ (~loaded.done /\ CreateEntity(MaxSerEntities, {0}))
    \/ (~loaded.done /\ EmplaceEntity(MaxSerEntities))
    \/ (~loaded.done /\ SetParent)
    \/ SetScale
    \/ SetEntityName
    \/ SaveLoad

SpecSer == Init /\ [][NextSer]_vars

\* ---- the animator's operations as actions ------------------------------------
UnchangedWorld == UNCHANGED <<world, op, crashed, stream, loaded, call, module, scene>>

\* the animator gets its controller
SetAnimatorSource ==
    /\ animator.resource.type = "null"
    /\ \E resource \in Controllers : animator' = [animator EXCEPT !.resource = resource]
    /\ UnchangedWorld

\* setAnimatorInput(entity, input_idx, value) for the bool and float inputs
SetAnimatorInput ==
    /\ animator.has_ctx /\ ~animator.failed /\ animator.ticks < MaxTicks
    /\ \E input_idx \in 0 .. 2 :
          \E value \in IF input_idx < 2 THEN BOOLEAN ELSE 0 .. 1 :
             /\ animator.inputs[input_idx + 1] # value
             /\ animator' = [animator EXCEPT !.inputs[input_idx + 1] = value]
    /\ UnchangedWorld

\* updateAnimator: the runtime is created on the first call; the update pass
\* is followed by the getPose pass
UpdateAnimator ==
    /\ animator.resource.type # "null" /\ ~animator.failed /\ animator.ticks < MaxTicks
    /\ \E time_delta \in 1 .. MaxTimeDelta :
          \E ctx \in {IF animator.has_ctx
                      THEN [RuntimeContext(animator.inputs) EXCEPT !.data = animator.data]
                      ELSE createRuntime(animator.resource)} :
             \E u \in {Controller_update(animator.resource, ctx, time_delta)} :
                \E p \in {Controller_getPose(animator.resource, u)} :
                   animator' = [animator EXCEPT !.has_ctx = TRUE,
                                                !.data = u.data,
                                                !.inputs = ctx.inputs,
                                                !.ticks = @ + 1,
                                                !.time_delta = time_delta,
                                                !.failed = u.undefined \/ p.undefined,
                                                !.update_pass = Pass(u),
                                                !.pose_pass = IF u.undefined THEN NoPass
                                                              ELSE Pass(p)]
    /\ UnchangedWorld

\* SpecAnim: one animator walking its blend tree
NextAnim ==
    \/ SetAnimatorSource
    \/ SetAnimatorInput
    \/ UpdateAnimator

SpecAnim == Init /\ [][NextAnim]_vars

\* ---- Group nodes with exit times -------------------------------------------------
\* child 0 is left by a transition to child 1 at half of its loop; child 1 is
\* not SELECTABLE; child 2 is found by the scan of the children only
GroupWithExitTime ==
    GroupNode(1, 1,
              <<GroupChild(Expr(0, FALSE), TRUE, AnimationNode(2, 0, TRUE)),
                GroupChild(Expr(0, TRUE), FALSE, Clip(3)),
                GroupChild(Expr(1, TRUE), TRUE, AnimationNode(4, 1, FALSE))>>,
              <<Transition(0, 1, 1, 2)>>)

\* child 0 is left by a transition to the wildcard, with an exit time at half of
\* its loop or without an exit time
GroupWithWildcardExit(exit_time) ==
    GroupNode(1, 1,
              <<GroupChild(Expr(0, FALSE), TRUE, AnimationNode(2, 0, TRUE)),
                GroupChild(Expr(1, TRUE), TRUE, Clip(3))>>,
              <<Transition(0, Wildcard, exit_time, 2)>>)

GroupControllers ==
    {GroupWithTransitions, GroupWithExitTime, GroupWithWildcardExit(1),
     GroupWithWildcardExit(0 - 1)}

SetGroupSource ==
    /\ animator.resource.type = "null"
    /\ \E resource \in GroupControllers : animator' = [animator EXCEPT !.resource = resource]
    /\ UnchangedWorld

\* SpecGroup: one animator with a Group node as the root of its controller
NextGroup ==
    \/ SetGroupSource
    \/ SetAnimatorInput
    \/ UpdateAnimator

SpecGroup == Init /\ [][NextGroup]_vars

\* ---- a Group node ticked for ever ---------------------------------------------------
\* child 0 is a clip that is not looped; the transition to child 1 has its exit
\* point at exit_time / ExitTimeDen of the clip, or no exit time
GroupOverClips(exit_time) ==
    GroupNode(1, 1,
              <<GroupChild(Expr(0, FALSE), TRUE, AnimationNode(2, 0, FALSE)),
                GroupChild(Expr(0, TRUE), TRUE, Clip(3))>>,
              <<Transition(0, 1, exit_time, 1)>>)

LeaveControllers == {GroupOverClips(exit_time) : exit_time \in {0 - 1, 0, 1}}

MaxIdleTime == 4    \* RuntimeData::t of a Group with no crossfade is kept up to here

\* RuntimeData::t of a Select or a Group that is not crossfading is not read
\* before lines 860, 1005 and 1026 set it to 0: values above MaxIdleTime are kept
\* as MaxIdleTime
CapIdleTime(data) ==
    IF data # <<>> /\ data[1].type \in {"SelectData", "GroupData"}
       /\ data[1].from = data[1].to
    THEN [data EXCEPT ![1].t = Minimum({@, MaxIdleTime})]
    ELSE data

SetLeaveSource ==
    /\ animator.resource.type = "null"
    /\ \E resource \in LeaveControllers : animator' = [animator EXCEPT !.resource = resource]
    /\ UnchangedWorld

\* updateAnimator in every frame, with no end: ticks says only whether the
\* number of updates is odd or even
UpdateLeave ==
    /\ animator.resource.type # "null" /\ ~animator.failed
    /\ \E time_delta \in 1 .. MaxTimeDelta :
          \E ctx \in {IF animator.has_ctx
                      THEN [RuntimeContext(animator.inputs) EXCEPT !.data = animator.data]
                      ELSE createRuntime(animator.resource)} :
             \E u \in {Controller_update(animator.resource, ctx, time_delta)} :
                \E p \in {Controller_getPose(animator.resource, u)} :
                   animator' = [animator EXCEPT !.has_ctx = TRUE,
                                                !.data = CapIdleTime(u.data),
                                                !.inputs = ctx.inputs,
                                                !.ticks = 1 + (@ % 2),
                                                !.time_delta = time_delta,
                                                !.failed = u.undefined \/ p.undefined,
                                                !.update_pass = Pass(u),
                                                !.pose_pass = IF u.undefined THEN NoPass
                                                              ELSE Pass(p)]
    /\ UnchangedWorld

NextLeave ==
    \/ SetLeaveSource
    \/ SetAnimatorInput
    \/ UpdateLeave

\* AnimationModuleImpl::update runs updateAnimator in every frame of the game
SpecLeave == Init /\ [][NextLeave]_vars /\ WF_vars(UpdateLeave)

\* ---- an AnimationNode ticked once and in two halves -----------------------------
\* the context of an AnimationNode that stored the Time t in the last pass
TickContext(n, anim, t, time_delta) ==
    [RuntimeContext(<<FALSE, FALSE, 0>>) EXCEPT
        !.input_runtime = <<[node |-> n.id, type |-> "Time", t |-> t]>>,
        !.animations = <<anim, NoAnimation>>,
        !.time_delta = time_delta]

\* one update of the node: the Time it stores and the root motion it returns
Tick(n, anim, t, time_delta) ==
    [t |-> AnimationNode_update(n, TickContext(n, anim, t, time_delta)).data[1].t,
     root_motion |-> AnimationNode_rootMotion(n, TickContext(n, anim, t, time_delta))]

\* a second update after the update that returned first
TickAgain(n, anim, first, time_delta) ==
    [t |-> Tick(n, anim, first.t, time_delta).t,
     root_motion |-> LocalRigidTransform_mul(first.root_motion,
                                             Tick(n, anim, first.t, time_delta).root_motion)]

\* a function called on its own leaves the world and the animator alone
UnchangedProgram == UNCHANGED <<world, op, crashed, stream, loaded, animator, module, scene>>

\* the stored Time of a clip that is not looped never passes its length
TickInputs ==
    {c \in [name : {"AnimationNode::update"}, done : {FALSE}, looped : BOOLEAN,
            anim : {Animation(AnimLength, step, turn_at) :
                       step \in 1 .. 2, turn_at \in {1, AnimLength \div 2, AnimLength + 1}},
            t : 0 .. MaxStart, half : 1 .. MaxHalfTick] :
        c.looped \/ c.t <= AnimLength}

InitTick ==
    /\ world = NewWorld /\ op = NoOp /\ crashed = FALSE /\ stream = <<>>
    /\ loaded = [done |-> FALSE] /\ animator = NoAnimator
    /\ module = NewModule
    /\ scene = NewScene
    /\ call \in TickInputs

\* the node is updated once by 2 * half, and twice by half
UpdateSplit ==
    /\ call.name = "AnimationNode::update" /\ ~call.done
    /\ \E n \in {AnimationNode(1, 0, call.looped)} :
          \E first \in {Tick(n, call.anim, call.t, call.half)} :
             call' = [name |-> call.name, done |-> TRUE, looped |-> call.looped,
                      anim |-> call.anim, t |-> call.t, half |-> call.half,
                      whole |-> Tick(n, call.anim, call.t, 2 * call.half),
                      halves |-> TickAgain(n, call.anim, first, call.half)]
    /\ UnchangedProgram

NextTick == UpdateSplit

SpecTick == InitTick /\ [][NextTick]_vars

\* ---- Blend1DNode: the active pair ------------------------------------------------
\* a float that is the quotient of two integers
Quotient(num, den) == [num |-> num, den |-> den]

\* struct Blend1DActivePair: a and b are indexes into m_children, -1 for nullptr
Blend1DActivePair(a, b, t) == [a |-> a, b |-> b, t |-> t]

\* mutant of getActivePair: the child below the input alone
getActivePair_noBlend(children, input_val) ==
    Blend1DActivePair(Minimum({i \in 0 .. Size(children) - 1 :
                                  i = Size(children) - 1 \/ input_val < At(children, i + 1).value}),
                      -1, Quotient(0, 1))

\* the loop of lines 388-393 from child i on
RECURSIVE findPair(_, _, _)
findPair(children, input_val, i) ==
    IF i >= Size(children) THEN Blend1DActivePair(0, -1, Quotient(0, 1))
    ELSE IF input_val < At(children, i).value
    THEN Blend1DActivePair(i - 1, i,
                           Quotient(input_val - At(children, i - 1).value,
                                    At(children, i).value - At(children, i - 1).value))
    ELSE findPair(children, input_val, i + 1)

\* getActivePair(node, input_val), children being node.m_children
getActivePair(children, input_val) ==
    IF input_val > At(children, 0).value
    THEN IF input_val >= Back(children).value
         THEN Blend1DActivePair(Size(children) - 1, -1, Quotient(0, 1))
         ELSE findPair(children, input_val, 1)
    ELSE Blend1DActivePair(0, -1, Quotient(0, 1))

\* the children of a Blend1D node in ascending order of their values
RECURSIVE Blend1DChildren(_)
Blend1DChildren(c) ==
    IF c = 0 THEN {<<>>}
    ELSE {Append(children, [value |-> value, slot |-> c - 1]) :
             children \in Blend1DChildren(c - 1), value \in 0 .. MaxValue}

Ascending(children) ==
    \A i \in 1 .. Len(children) - 1 : children[i].value <= children[i + 1].value

PairInputs ==
    {c \in [name : {"getActivePair"}, done : {FALSE},
            children : UNION {Blend1DChildren(k) : k \in 1 .. MaxChildren},
            input_val : 0 .. MaxValue] :
        Ascending(c.children)}

InitPair ==
    /\ world = NewWorld /\ op = NoOp /\ crashed = FALSE /\ stream = <<>>
    /\ loaded = [done |-> FALSE] /\ animator = NoAnimator
    /\ module = NewModule
    /\ scene = NewScene
    /\ call \in PairInputs

GetActivePair ==
    /\ call.name = "getActivePair" /\ ~call.done
    /\ call' = [name |-> call.name, done |-> TRUE, children |-> call.children,
                input_val |-> call.input_val,
                pair |-> getActivePair(call.children, call.input_val)]
    /\ UnchangedProgram

NextPair == GetActivePair

SpecPair == InitPair /\ [][NextPair]_vars

\* ---- Blend2DNode: the triangulation and the active trio ---------------------------
\* A Vec2 holds the numerators of its two floats; the denominator is that of the
\* place it is used: 1 for a child's value, InputDen for an input, 2 inside
\* dataChanged, where (max + min) * 0.5f has to be exact.
Vec2(x, y) == [x |-> x, y |-> y]

Vec2_minus(a, b) == Vec2(a.x - b.x, a.y - b.y)

Vec2_times(a, f) == Vec2(a.x * f, a.y * f)

dot(a, b) == a.x * b.x + a.y * b.y

squaredLength(a) == dot(a, a)

ortho(a) == Vec2(a.y, 0 - a.x)

maximum(a, b) == IF a > b THEN a ELSE b

\* the sign of x.x * y.x + x.y * y.y, a sum too wide for one machine word of the
\* model: each product is split at WideBase into a high and a low word
WideBase == 2 ^ 15

WideSign(hi, lo) ==
    IF hi + (lo \div WideBase) > 0 THEN 1
    ELSE IF hi + (lo \div WideBase) < 0 THEN -1
    ELSE IF lo % WideBase > 0 THEN 1 ELSE 0

WideDotSign(x, y) ==
    WideSign(x.x * (y.x \div WideBase) + x.y * (y.y \div WideBase),
             x.x * (y.x % WideBase) + x.y * (y.y % WideBase))

\* computeCircumcircleCenter(a, b, c): the center is a + o / den
computeCircumcircleCenter(a, b, c) ==
    [a |-> a,
     o |-> ortho(Vec2_minus(Vec2_times(Vec2_minus(c, a), squaredLength(Vec2_minus(b, a))),
                            Vec2_times(Vec2_minus(b, a), squaredLength(Vec2_minus(c, a))))),
     den |-> (Vec2_minus(b, a).x * Vec2_minus(c, a).y
              - Vec2_minus(b, a).y * Vec2_minus(c, a).x) * 2]

\* squaredLength(p - center) > squaredLength(m_children[t.a].value - center), line 316.
\* With q = p - a the two sides differ by |q|^2 - 2 * dot(q, o) / den, whose sign is
\* that of den * dot(q, q * (den / 2) - o). A center with den = 0 is infinite or NaN,
\* and no comparison with it is true.
OutsideCircumcircle(p, center) ==
    /\ center.den # 0
    /\ (center.den \div 2)
         * WideDotSign(Vec2_minus(p, center.a),
                       Vec2_minus(Vec2_times(Vec2_minus(p, center.a), center.den \div 2),
                                  center.o)) > 0

\* the lambda pushTriangle
pushTriangle(children, a, b, c) ==
    [a |-> a, b |-> b, c |-> c,
     circumcircle_center |-> computeCircumcircleCenter(At(children, a), At(children, b),
                                                       At(children, c))]

\* Array::swapAndPop
swapAndPop(array, i) ==
    IF i = Size(array) - 1 THEN Pop(array) ELSE Pop(SetAt(array, i, Back(array)))

\* Edge::operator ==
Edge_equals(e, rhs) == (e.a = rhs.a /\ e.b = rhs.b) \/ (e.a = rhs.b /\ e.b = rhs.a)

\* the loop of lines 313-323 from triangle ti down; s holds the triangles and the edges
RECURSIVE collectEdges(_, _, _, _)
collectEdges(s, children, p, ti) ==
    IF ti < 0 THEN s
    ELSE IF OutsideCircumcircle(p, At(s.triangles, ti).circumcircle_center)
    THEN collectEdges(s, children, p, ti - 1)
    ELSE collectEdges([triangles |-> swapAndPop(s.triangles, ti),
                       edges |-> s.edges \o <<[a |-> At(s.triangles, ti).a,
                                               b |-> At(s.triangles, ti).b],
                                              [a |-> At(s.triangles, ti).b,
                                               b |-> At(s.triangles, ti).c],
                                              [a |-> At(s.triangles, ti).c,
                                               b |-> At(s.triangles, ti).a]>>],
                      children, p, ti - 1)

\* lines 325-334: every edge that equals another edge is erased
validEdges(edges) ==
    SelectSeq(edges,
              LAMBDA e : Cardinality({i \in DOMAIN edges : Edge_equals(edges[i], e)}) = 1)

\* lines 336-338
pushEdges(s, children, ch) ==
    s.triangles \o [i \in 1 .. Len(validEdges(s.edges)) |->
                       pushTriangle(children, validEdges(s.edges)[i].a,
                                    validEdges(s.edges)[i].b, ch)]

\* the loop of lines 309-339 from child ch on; c is m_children.size() - 3
RECURSIVE insertChildren(_, _, _, _)
insertChildren(triangles, children, ch, c) ==
    IF ch >= c THEN triangles
    ELSE insertChildren(pushEdges(collectEdges([triangles |-> triangles, edges |-> <<>>],
                                               children, At(children, ch),
                                               Size(triangles) - 1),
                                  children, ch),
                        children, ch + 1, c)

\* lines 296-307: m_children with the three vertices of the bounding triangle, in halves
boundingTriangle(values, min, max) ==
    values \o <<Vec2((max.x + min.x) \div 2 - 20 * maximum(max.x - min.x, max.y - min.y),
                     (max.y + min.y) \div 2 - maximum(max.x - min.x, max.y - min.y)),
                Vec2((max.x + min.x) \div 2,
                     (max.y + min.y) \div 2 + 20 * maximum(max.x - min.x, max.y - min.y)),
                Vec2((max.x + min.x) \div 2 + 20 * maximum(max.x - min.x, max.y - min.y),
                     (max.y + min.y) \div 2 - maximum(max.x - min.x, max.y - min.y))>>

\* lines 304-339 over the children and the bounding triangle
triangulate(children) ==
    insertChildren(<<pushTriangle(children, Size(children) - 1, Size(children) - 2, 0),
                     pushTriangle(children, Size(children) - 2, Size(children) - 3, 0),
                     pushTriangle(children, Size(children) - 3, Size(children) - 1, 0)>>,
                   children, 1, Size(children) - 3)

\* the values of the children in halves
Halves(values) == [i \in DOMAIN values |-> Vec2_times(values[i], 2)]

\* Blend2DNode::dataChanged: m_triangles of the node whose children have these values
dataChanged(values) ==
    IF Len(values) < 3 THEN <<>>
    ELSE SelectSeq(triangulate(boundingTriangle(
                       Halves(values),
                       Vec2(Minimum({2 * values[i].x : i \in DOMAIN values}),
                            Minimum({2 * values[i].y : i \in DOMAIN values})),
                       Vec2(0 - Minimum({0 - 2 * values[i].x : i \in DOMAIN values}),
                            0 - Minimum({0 - 2 * values[i].y : i \in DOMAIN values})))),
                   LAMBDA t : ~(t.a >= Len(values) \/ t.b >= Len(values) \/ t.c >= Len(values)))

\* the denominator of the floats of an input
InputDen == 4

\* getBarycentric(p, a, b, c, uv) with p over InputDen: uv.x is x / den and uv.y is
\* y / den; a denom of 0 makes uv infinite or NaN, and the test false
getBarycentric(p, a, b, c) ==
    [x |-> dot(Vec2_minus(c, a), Vec2_minus(c, a))
             * dot(Vec2_minus(p, Vec2_times(a, InputDen)), Vec2_minus(b, a))
           - dot(Vec2_minus(b, a), Vec2_minus(c, a))
             * dot(Vec2_minus(p, Vec2_times(a, InputDen)), Vec2_minus(c, a)),
     y |-> dot(Vec2_minus(b, a), Vec2_minus(b, a))
             * dot(Vec2_minus(p, Vec2_times(a, InputDen)), Vec2_minus(c, a))
           - dot(Vec2_minus(b, a), Vec2_minus(c, a))
             * dot(Vec2_minus(p, Vec2_times(a, InputDen)), Vec2_minus(b, a)),
     den |-> InputDen * (dot(Vec2_minus(b, a), Vec2_minus(b, a))
                           * dot(Vec2_minus(c, a), Vec2_minus(c, a))
                         - dot(Vec2_minus(b, a), Vec2_minus(c, a))
                           * dot(Vec2_minus(b, a), Vec2_minus(c, a)))]

\* the value getBarycentric returns, line 92
Barycentric_inside(uv) ==
    uv.den # 0 /\ uv.x * uv.den >= 0 /\ uv.y * uv.den >= 0
               /\ (uv.x + uv.y) * uv.den <= uv.den * uv.den

\* struct Blend2DActiveTrio: a, b, c index m_children, the weights are over den
Blend2DActiveTrio(a, b, c, ta, tb, tc, den) ==
    [a |-> a, b |-> b, c |-> c, ta |-> ta, tb |-> tb, tc |-> tc, den |-> den]

\* lines 101-108: the trio of triangle t, uv being its barycentric coordinates
trioOf(t, uv) ==
    Blend2DActiveTrio(t.a, t.b, t.c, uv.den - uv.x - uv.y, uv.x, uv.y, uv.den)

\* the loop of lines 98-109 from triangle i on, and the fallback of lines 111-117
RECURSIVE getActiveTrio(_, _, _, _)
getActiveTrio(triangles, values, input_val, i) ==
    IF i >= Size(triangles) THEN Blend2DActiveTrio(0, 0, 0, 1, 0, 0, 1)
    ELSE IF Barycentric_inside(getBarycentric(input_val, At(values, At(triangles, i).a),
                                              At(values, At(triangles, i).b),
                                              At(values, At(triangles, i).c)))
    THEN trioOf(At(triangles, i),
                getBarycentric(input_val, At(values, At(triangles, i).a),
                               At(values, At(triangles, i).b),
                               At(values, At(triangles, i).c)))
    ELSE getActiveTrio(triangles, values, input_val, i + 1)

\* the largest coordinates of a child's value
MaxX2D == 5

MaxY2D == 8

\* three children that are not collinear, the first at the origin
TrioValues ==
    {v \in {<<Vec2(0, 0), Vec2(bx, by), Vec2(cx, cy)>> :
                bx \in 0 .. MaxX2D, by \in 0 .. MaxY2D,
                cx \in 0 .. MaxX2D, cy \in 0 .. MaxY2D} :
        v[2].x * v[3].y - v[2].y * v[3].x # 0}

\* the inputs (i * a + j * b + k * c) / InputDen with i + j + k = InputDen and
\* i, j, k > 0: points strictly inside the triangle of the three values
InsideInputs(v) ==
    {Vec2(ij[1] * v[1].x + ij[2] * v[2].x + (InputDen - ij[1] - ij[2]) * v[3].x,
          ij[1] * v[1].y + ij[2] * v[2].y + (InputDen - ij[1] - ij[2]) * v[3].y) :
        ij \in {p \in (1 .. InputDen) \X (1 .. InputDen) : p[1] + p[2] < InputDen}}

TrioInputs ==
    UNION {[name : {"getActiveTrio"}, done : {FALSE}, changed : {FALSE}, values : {v},
            input_val : InsideInputs(v), m_triangles : {<<>>},
            trio : {Blend2DActiveTrio(0, 0, 0, 0, 0, 0, 1)}] : v \in TrioValues}

InitTrio ==
    /\ world = NewWorld /\ op = NoOp /\ crashed = FALSE /\ stream = <<>>
    /\ loaded = [done |-> FALSE] /\ animator = NoAnimator
    /\ module = NewModule
    /\ scene = NewScene
    /\ call \in TrioInputs

\* the children of the node were set: dataChanged builds m_triangles
DataChanged ==
    /\ call.name = "getActiveTrio" /\ ~call.changed
    /\ call' = [call EXCEPT !.changed = TRUE, !.m_triangles = dataChanged(call.values)]
    /\ UnchangedProgram

\* the update of the node asks for the active trio of its input
GetActiveTrio ==
    /\ call.name = "getActiveTrio" /\ call.changed /\ ~call.done
    /\ call' = [call EXCEPT !.done = TRUE,
                            !.trio = getActiveTrio(call.m_triangles, call.values,
                                                   call.input_val, 0)]
    /\ UnchangedProgram

NextTrio == DataChanged \/ GetActiveTrio

SpecTrio == InitTrio /\ [][NextTrio]_vars

\* ---- the animation module's operations as actions --------------------------------
UnchangedScene == UNCHANGED <<world, op, crashed, stream, loaded, animator, call, scene>>

\* the module with the log of the last operation cleared
Module == [module EXCEPT !.log = <<>>]

StartGame ==
    /\ ~module.m_is_game_running
    /\ module' = [Module EXCEPT !.m_is_game_running = TRUE]
    /\ UnchangedScene

StopGame ==
    /\ module.m_is_game_running
    /\ module' = [Module EXCEPT !.m_is_game_running = FALSE]
    /\ UnchangedScene

CreateAnimator ==
    /\ Len(module.m_animators) < MaxAnimators
    /\ module' = [Module EXCEPT !.m_animators = Append(@, [resource |-> 0, ctx |-> 0])]
    /\ UnchangedScene

SetAnimatorSourcePath ==
    /\ \E a \in DOMAIN module.m_animators, path \in 0 .. NumControllers :
          module' = setAnimatorSource(Module, a, path)
    /\ UnchangedScene

\* a controller that is referenced finishes loading, or fails to
ResourceLoaded ==
    /\ \E r \in 1 .. NumControllers, new_state \in {"READY", "FAILURE"} :
          /\ module.resources[r].state = "EMPTY" /\ module.resources[r].ref_count > 0
          /\ module' = Resource_setState(Module, r, new_state)
    /\ UnchangedScene

\* a controller is reloaded: it is not ready until it has loaded again
ResourceReloaded ==
    /\ \E r \in 1 .. NumControllers :
          /\ module.resources[r].state # "EMPTY"
          /\ module' = Resource_setState(Module, r, "EMPTY")
    /\ UnchangedScene

Update ==
    /\ module.m_is_game_running
    /\ module' = AnimationModule_update(Module, 1)
    /\ UnchangedScene

\* updateAnimator(entity, time_delta), the call of lines 515-518
UpdateAnimatorOf ==
    /\ \E a \in DOMAIN module.m_animators : module' = updateAnimator_runtime(Module, a)
    /\ UnchangedScene

NextScene ==
    \/ StartGame
    \/ StopGame
    \/ CreateAnimator
    \/ SetAnimatorSourcePath
    \/ ResourceLoaded
    \/ ResourceReloaded
    \/ Update
    \/ UpdateAnimatorOf

SpecScene == Init /\ [][NextScene]_vars

\* ---- the references of the animation module as actions ----------------------------
CreateAnimableRecord ==
    /\ Len(module.m_animables) < MaxAnimables
    /\ module' = [Module EXCEPT !.m_animables = Append(@, 0)]
    /\ UnchangedScene

CreatePropertyAnimatorRecord ==
    /\ Len(module.m_property_animators) < MaxPropertyAnimators
    /\ module' = [Module EXCEPT !.m_property_animators = Append(@, 0)]
    /\ UnchangedScene

SetAnimation ==
    /\ \E i \in DOMAIN module.m_animables, path \in 1 .. NumAnimations :
          module' = setAnimation(Module, i, path)
    /\ UnchangedScene

SetPropertyAnimation ==
    /\ \E i \in DOMAIN module.m_property_animators, path \in 0 .. NumAnimations :
          module' = setPropertyAnimation(Module, i, path)
    /\ UnchangedScene

DestroyAnimable ==
    /\ \E i \in DOMAIN module.m_animables : module' = destroyAnimable(Module, i)
    /\ UnchangedScene

DestroyPropertyAnimator ==
    /\ \E i \in DOMAIN module.m_property_animators :
          module' = destroyPropertyAnimator(Module, i)
    /\ UnchangedScene

DestroyAnimator ==
    /\ \E idx \in DOMAIN module.m_animators : module' = destroyAnimator(Module, idx)
    /\ UnchangedScene

\* deserialize of a stream with one component of each type
DeserializeModule ==
    /\ Len(module.m_animables) < MaxAnimables
    /\ Len(module.m_property_animators) < MaxPropertyAnimators
    /\ Len(module.m_animators) < MaxAnimators
    /\ \E animation \in 0 .. NumAnimations, property_animation \in 0 .. NumAnimations,
          controller \in 0 .. NumControllers :
          module' = AnimationModule_deserialize(Module, animation, property_animation,
                                                controller)
    /\ UnchangedScene

\* the module is destroyed with the world, and a new world gets a new module
DestroyModule ==
    /\ module.m_animators # <<>> \/ module.m_animables # <<>>
         \/ module.m_property_animators # <<>>
    /\ module' = AnimationModule_destroy(Module)
    /\ UnchangedScene

NextRef ==
    \/ StartGame
    \/ CreateAnimator
    \/ CreateAnimableRecord
    \/ CreatePropertyAnimatorRecord
    \/ SetAnimatorSourcePath
    \/ SetAnimation
    \/ SetPropertyAnimation
    \/ ResourceLoaded
    \/ DestroyAnimator
    \/ DestroyAnimable
    \/ DestroyPropertyAnimator
    \/ DeserializeModule
    \/ DestroyModule

SpecRef == Init /\ [][NextRef]_vars

\* ---- the parallel Animator phase as actions ---------------------------------------
UnchangedRest == UNCHANGED <<op, crashed, stream, loaded, animator, module, scene>>

\* update, lines 831-833: one job per animator is handed to the workers
BeginUpdate ==
    /\ ~crashed /\ call.name = "none" /\ Size(world.m_entities) > 0
    /\ \E jobs \in [1 .. Size(world.m_entities) -> {Job(r) : r \in RootMotions}] :
          call' = [name |-> "update", done |-> FALSE, start |-> world, jobs |-> jobs]
    /\ UNCHANGED world
    /\ UnchangedRest

\* line 647: Transform tr = m_world.getTransform(animator.entity), and lines 648-650
JobGetTransform ==
    /\ ~crashed /\ call.name = "update"
    /\ \E e \in 0 .. Size(call.jobs) - 1 :
          /\ At(call.jobs, e).pc = "getTransform"
          /\ call' = [call EXCEPT !.jobs[e + 1].pc = "setTransform",
                                  !.jobs[e + 1].tr =
                                      applyRootMotion(getTransform(world, e),
                                                      At(call.jobs, e).root_motion)]
    /\ UNCHANGED world
    /\ UnchangedRest

\* line 651: setTransform stores the transform of the entity
JobSetTransform ==
    /\ ~crashed /\ call.name = "update"
    /\ \E e \in 0 .. Size(call.jobs) - 1 :
          /\ At(call.jobs, e).pc = "setTransform"
          /\ world' = [world EXCEPT !.m_transforms = SetAt(@, e, At(call.jobs, e).tr)]
          /\ call' = [call EXCEPT !.jobs[e + 1].pc = "transformEntity"]
    /\ UnchangedRest

\* transformEntity(entity, true) up to its loop: it reads the transform of the
\* entity again and stores the local transform
JobTransformEntity ==
    /\ ~crashed /\ call.name = "update"
    /\ \E e \in 0 .. Size(call.jobs) - 1 :
          /\ At(call.jobs, e).pc = "transformEntity"
          /\ IF At(world.m_entities, e).hierarchy < 0
             THEN /\ call' = [call EXCEPT !.jobs[e + 1].pc = "done"]
                  /\ UNCHANGED world
             ELSE /\ world' = updateLocal(world, e, getTransform(world, e))
                  /\ call' = [call EXCEPT !.jobs[e + 1].pc =
                                              IF isValid(getFirstChild(world, e))
                                              THEN "child" ELSE "done",
                                          !.jobs[e + 1].tr = getTransform(world, e),
                                          !.jobs[e + 1].child = getFirstChild(world, e)]
    /\ UnchangedRest

\* one turn of the loop of transformEntity over the children of the entity
JobTransformChild ==
    /\ ~crashed /\ call.name = "update"
    /\ \E e \in 0 .. Size(call.jobs) - 1 :
          /\ At(call.jobs, e).pc = "child"
          /\ \E r \in {transformChild(world, At(call.jobs, e).tr, At(call.jobs, e).child)} :
                IF r.hang THEN Crash /\ UNCHANGED call
                ELSE /\ world' = r.w
                     /\ call' = [call EXCEPT
                                    !.jobs[e + 1].pc =
                                        IF isValid(getNextSibling(world, At(call.jobs, e).child))
                                        THEN "child" ELSE "done",
                                    !.jobs[e + 1].child =
                                        getNextSibling(world, At(call.jobs, e).child)]
                     /\ UNCHANGED <<op, crashed>>
    /\ UNCHANGED <<stream, loaded, animator, module, scene>>

NextPar ==
    \/ call.name = "none" /\ CreateEntity(MaxParEntities, 0 .. 1)
    \/ call.name = "none" /\ SetParent
    \/ BeginUpdate
    \/ JobGetTransform
    \/ JobSetTransform
    \/ JobTransformEntity
    \/ JobTransformChild

SpecPar == Init /\ [][NextPar]_vars

\* ---- the update of the animation module as actions --------------------------------
UnchangedButScene ==
    UNCHANGED <<world, op, crashed, stream, loaded, animator, call, module>>

\* createAnimable(entity): one animable per entity; its animation is ready or not
CreateAnimable ==
    /\ scene.phase = "idle"
    /\ \E e \in 1 .. NumSceneEntities, ready \in BOOLEAN :
          /\ \A i \in DOMAIN scene.m_animables : scene.m_animables[i].entity # e
          /\ scene' = [scene EXCEPT !.m_animables =
                          Append(@, [entity |-> e, ready |-> ready, job |-> PendingJob])]
    /\ UnchangedButScene

CreatePropertyAnimator ==
    /\ scene.phase = "idle"
    /\ Len(scene.m_property_animators) < MaxPropertyAnimators
    /\ scene' = [scene EXCEPT !.m_property_animators =
                    Append(@, [time |-> 0, updated |-> FALSE])]
    /\ UnchangedButScene

\* createAnimator(entity): one animator per entity, without a controller yet
CreateAnimatorOf(entities) ==
    /\ scene.phase = "idle"
    /\ \E e \in entities :
          /\ \A i \in DOMAIN scene.m_animators : scene.m_animators[i].entity # e
          /\ scene' = [scene EXCEPT !.m_animators =
                          Append(@, [entity |-> e, ready |-> FALSE,
                                     root_motion |-> LocalRigidTransform(0, 1),
                                     job |-> PendingJob])]
    /\ UnchangedButScene

\* the controller of an animator becomes ready, or stops being ready
ControllerStateChanged ==
    /\ scene.phase = "idle"
    /\ \E i \in DOMAIN scene.m_animators :
          scene' = [scene EXCEPT !.m_animators[i].ready = ~@]
    /\ UnchangedButScene

\* the model instance of an entity becomes ready, or is removed
ModelStateChanged(entities) ==
    /\ scene.phase = "idle"
    /\ \E e \in entities : scene' = [scene EXCEPT !.entities[e].pose_ok = ~@]
    /\ UnchangedButScene

UpdateBegin ==
    /\ scene.phase = "idle" /\ scene.frames < MaxFrames
    /\ scene' = update_begin(scene, module.m_is_game_running)
    /\ UnchangedButScene

JobLockPose(kind) ==
    /\ scene.phase = (IF kind = "m_animables" THEN "animables" ELSE "animators")
    /\ \E i \in DOMAIN scene[kind] :
          /\ scene[kind][i].job.pc = "pending"
          /\ scene' = update_lockPose(scene, kind, i)
    /\ UnchangedButScene

AnimablePose ==
    /\ scene.phase = "animables"
    /\ \E i \in DOMAIN scene.m_animables :
          /\ scene.m_animables[i].job.pc = "locked"
          /\ scene' = updateAnimable_pose(scene, i)
    /\ UnchangedButScene

AnimableUnlock ==
    /\ scene.phase = "animables"
    /\ \E i \in DOMAIN scene.m_animables :
          /\ scene.m_animables[i].job.pc = "written"
          /\ scene' = updateAnimable_unlock(scene, i)
    /\ UnchangedButScene

UpdateAnimators ==
    /\ scene.phase = "animables" /\ forEach_finished(scene.m_animables)
    /\ scene' = update_animators(scene)
    /\ UnchangedButScene

AnimatorPose(root_motions) ==
    /\ scene.phase = "animators"
    /\ \E i \in DOMAIN scene.m_animators, root_motion \in root_motions :
          /\ scene.m_animators[i].job.pc = "locked"
          /\ scene' = updateAnimator_pose(scene, i, root_motion)
    /\ UnchangedButScene

AnimatorUnlock ==
    /\ scene.phase = "animators"
    /\ \E i \in DOMAIN scene.m_animators :
          /\ scene.m_animators[i].job.pc = "written"
          /\ scene' = updateAnimator_unlock(scene, i)
    /\ UnchangedButScene

UpdateEnd ==
    /\ scene.phase = "animators" /\ forEach_finished(scene.m_animators)
    /\ scene' = update_end(scene)
    /\ UnchangedButScene

\* SpecFrame: the phases of one update over two entities
NextFrame ==
    \/ scene.phase = "idle" /\ StartGame
    \/ scene.phase = "idle" /\ StopGame
    \/ CreateAnimable
    \/ CreatePropertyAnimator
    \/ CreateAnimatorOf(1 .. NumSceneEntities)
    \/ scene.frames = 0 /\ ControllerStateChanged
    \/ scene.frames = 0 /\ ModelStateChanged(1 .. NumSceneEntities)
    \/ UpdateBegin
    \/ JobLockPose("m_animables")
    \/ AnimablePose
    \/ AnimableUnlock
    \/ UpdateAnimators
    \/ JobLockPose("m_animators")
    \/ AnimatorPose({LocalRigidTransform(0, 1)})
    \/ AnimatorUnlock
    \/ UpdateEnd

SpecFrame == Init /\ [][NextFrame]_vars

\* SpecRoot: one animator with root motion over several updates
NextRoot ==
    \/ scene.phase = "idle" /\ StartGame
    \/ CreateAnimatorOf({1})
    \/ ControllerStateChanged
    \/ ModelStateChanged({1})
    \/ UpdateBegin
    \/ UpdateAnimators
    \/ JobLockPose("m_animators")
    \/ AnimatorPose(RootMotions)
    \/ AnimatorUnlock
    \/ UpdateEnd

SpecRoot == Init /\ [][NextRoot]_vars

\* ---- a setter of a typed input called on its own ----------------------------------
\* An animator has no controller, a controller without a runtime context, or a
\* controller with a runtime context that holds one value per declared input.
InputAnimators ==
    {[has_resource |-> FALSE, has_ctx |-> FALSE, m_inputs |-> <<>>, inputs |-> <<>>]}
    \cup {[has_resource |-> TRUE, has_ctx |-> has_ctx, m_inputs |-> m_inputs,
           inputs |-> IF has_ctx THEN [i \in DOMAIN m_inputs |-> 0] ELSE <<>>] :
             has_ctx \in BOOLEAN,
             m_inputs \in UNION {[1 .. n -> ValueTypes] : n \in 0 .. MaxInputs}}

InitInput ==
    /\ world = NewWorld /\ op = NoOp /\ crashed = FALSE /\ stream = <<>>
    /\ loaded = [done |-> FALSE] /\ animator = NoAnimator
    /\ module = NewModule
    /\ scene = NewScene
    /\ call \in [name : {"setAnimatorInput", "setAnimatorTypedInput"}, done : {FALSE},
                 a : InputAnimators, input_idx : 0 .. MaxInputIdx, type : ValueTypes,
                 result : {SetterResult(<<>>, "none")}]

SetInput ==
    /\ call.name = "setAnimatorInput" /\ ~call.done
    /\ call' = [call EXCEPT !.done = TRUE,
                            !.result = setAnimatorInput(call.a, call.input_idx, call.type, 1)]
    /\ UnchangedProgram

SetTypedInput ==
    /\ call.name = "setAnimatorTypedInput" /\ ~call.done
    /\ call' = [call EXCEPT !.done = TRUE,
                            !.result = setAnimatorTypedInput(call.a, call.input_idx,
                                                             call.type, 1)]
    /\ UnchangedProgram

NextInput == SetInput \/ SetTypedInput

SpecInput == InitInput /\ [][NextInput]_vars

\* ---- a node written and read back ---------------------------------------------------
NodeBase(type, name, events) == [type |-> type, m_name |-> name, m_events |-> events]

\* nodes without children: Animation, Blend1D and Blend2D
LeafConfigs ==
    {NodeBase("animation", name, events) @@ [m_slot |-> slot, m_flags |-> 1 - slot] :
       name \in {"", "walk"}, events \in {<<>>, <<7, 0>>}, slot \in 0 .. 1}
    \cup {NodeBase("blend1d", "b1", <<>>) @@ [m_input_index |-> 1, m_children |-> children] :
            children \in {<<>>, <<[value |-> 0, slot |-> 1]>>}}
    \cup {NodeBase("blend2d", "b2", <<3>>)
            @@ [m_x_input_index |-> 0, m_y_input_index |-> 1, m_children |-> children] :
            children \in {<<>>, <<[value |-> <<0, 1>>, slot |-> 0]>>}}

SomeLeaves ==
    {n \in LeafConfigs : n.m_name # "" /\ (n.type = "animation" => n.m_events = <<>>)}

\* the nodes with children taken from nodes
ParentConfigs(nodes) ==
    LET lists == UNION {[1 .. k -> nodes] : k \in 0 .. MaxNodeChildren}
    IN {NodeBase("layers", "l", <<>>)
          @@ [m_children |-> [i \in DOMAIN c |-> [name |-> "up", mask |-> i, node |-> c[i]]]] :
          c \in lists}
       \cup {NodeBase("select", "s", <<1>>)
               @@ [m_blend_length |-> 1, m_input_index |-> 0,
                   m_children |-> [i \in DOMAIN c |-> [max_value |-> i, node |-> c[i]]]] :
               c \in lists}
       \cup {NodeBase("group", "g", <<>>)
               @@ [m_blend_length |-> 2,
                   m_children |-> [i \in DOMAIN c |->
                                     [flags |-> i % 2, condition_str |-> "x", node |-> c[i]]],
                   m_transitions |-> transitions] :
               c \in lists, transitions \in {<<>>, <<[from |-> 0, to |-> Wildcard]>>}}
       \cup {NodeBase("condition", "c", <<>>)
               @@ [m_condition_str |-> "x > 0", m_blend_length |-> 1,
                   m_true_node |-> t, m_false_node |-> f] :
               t \in nodes \cup {[type |-> "null"]}, f \in nodes \cup {[type |-> "null"]}}

\* one parent of every class, to be the children of the trees of depth three
SomeParents ==
    {n \in ParentConfigs({CHOOSE l \in SomeLeaves : l.type = "blend1d" /\ l.m_children # <<>>}) :
       /\ n.type # "condition" => Len(n.m_children) = 1
       /\ n.type = "group" => n.m_transitions # <<>>
       /\ n.type = "condition" => n.m_true_node.type = "null" /\ n.m_false_node.type # "null"}

NodeConfigs == LeafConfigs \cup ParentConfigs(SomeLeaves) \cup ParentConfigs(SomeParents)

InitNode ==
    /\ world = NewWorld /\ op = NoOp /\ crashed = FALSE /\ stream = <<>>
    /\ loaded = [done |-> FALSE] /\ animator = NoAnimator
    /\ module = NewModule
    /\ scene = NewScene
    /\ call \in [name : {"serializeNode"}, done : {FALSE}, node : NodeConfigs,
                 blob : {<<>>}, result : {Misread(1)}]

\* the node is serialized to an empty stream; a node of the type of the node,
\* made by Node::create, deserializes the blob from its start
SerializeNode ==
    /\ call.name = "serializeNode" /\ ~call.done
    /\ \E blob \in {serializeNode(call.node)} :
          call' = [call EXCEPT !.done = TRUE, !.blob = blob,
                               !.result = deserializeNode(blob, 1, call.node.type)]
    /\ UnchangedProgram

NextNode == SerializeNode

SpecNode == InitNode /\ [][NextNode]_vars

\* ---- an Animation node with timeline events, updated tick after tick --------------
EventTimes == {0, 16384, 32768, 49152, 61440}

InitEvents ==
    /\ world = NewWorld /\ op = NoOp /\ crashed = FALSE /\ stream = <<>>
    /\ loaded = [done |-> FALSE] /\ animator = NoAnimator
    /\ module = NewModule
    /\ scene = NewScene
    /\ call \in [name : {"emitEvents"}, done : {FALSE},
                 node : [looped : BOOLEAN,
                         m_events : UNION {[1 .. n -> EventTimes] : n \in 1 .. 2}],
                 t : {0}, old : {0}, time_delta : {0}, events : {<<>>}, ticks : {0}]

\* one update of the node: 0 < time_delta < length of the clip
UpdateEvents ==
    /\ call.name = "emitEvents" /\ call.ticks < MaxEventTicks
    /\ \E time_delta \in 1 .. MaxTimeDelta :
          \E r \in {AnimationNode_events(call.node, call.t, time_delta, AnimLength)} :
             call' = [call EXCEPT !.done = TRUE, !.t = r.t, !.old = r.old,
                                  !.time_delta = time_delta,
                                  !.events = r.events, !.ticks = @ + 1]
    /\ UnchangedProgram

NextEvents == UpdateEvents

SpecEvents == InitEvents /\ [][NextEvents]_vars

\* ---- a Condition, a Select and a Group node driven by the same ticks -----------------
MaxBlendLength == 3     \* blend lengths 0 .. MaxBlendLength ticks

MaxFadeTicks == 5       \* number of updates of the three controllers

\* three controllers with the same two clips and the same blend length: the
\* true branch, child 1 of the Select and child 1 of the Group run if input 0 is
\* TRUE (input 2 is 1), the false branch and the children 0 otherwise
FadeCondition(blend_length) ==
    ConditionNode(1, Expr(0, TRUE), blend_length, Clip(3), Clip(2))

FadeSelect(blend_length) ==
    SelectNode(1, 2, blend_length, <<SelectChild(0, Clip(2)), SelectChild(1, Clip(3))>>)

FadeGroup(blend_length) ==
    GroupNode(1, blend_length,
              <<GroupChild(Expr(0, FALSE), TRUE, Clip(2)),
                GroupChild(Expr(0, TRUE), TRUE, Clip(3))>>,
              <<>>)

FadeControllers(blend_length) ==
    <<FadeCondition(blend_length), FadeSelect(blend_length), FadeGroup(blend_length)>>

FadeInputs(value) == <<value, FALSE, IF value THEN 1 ELSE 0>>

\* Controller::update of controller k of the call with the inputs of the call
FadeUpdate(k, time_delta) ==
    Controller_update(FadeControllers(call.blend_length)[k],
                      [RuntimeContext(FadeInputs(call.input)) EXCEPT !.data = call.data[k]],
                      time_delta)

InitFade ==
    /\ world = NewWorld /\ op = NoOp /\ crashed = FALSE /\ stream = <<>>
    /\ loaded = [done |-> FALSE] /\ animator = NoAnimator
    /\ module = NewModule
    /\ scene = NewScene
    /\ \E blend_length \in 0 .. MaxBlendLength :
          call = [name |-> "crossfade", blend_length |-> blend_length, input |-> FALSE,
                  data |-> [k \in 1 .. 3 |->
                              createRuntime(FadeControllers(blend_length)[k]).data],
                  old |-> <<>>, time_delta |-> 0, ticks |-> 0, failed |-> FALSE]

\* setAnimatorInput of input 0 and input 2 of the three runtime contexts
SetFadeInput ==
    /\ call.name = "crossfade" /\ call.ticks < MaxFadeTicks /\ ~call.failed
    /\ call' = [call EXCEPT !.input = ~@]
    /\ UnchangedProgram

\* one update of each of the three controllers with the same time_delta
UpdateFade ==
    /\ call.name = "crossfade" /\ call.ticks < MaxFadeTicks /\ ~call.failed
    /\ \E time_delta \in 1 .. MaxTimeDelta :
          \E u \in {[k \in 1 .. 3 |-> FadeUpdate(k, time_delta)]} :
             call' = [call EXCEPT !.data = [k \in 1 .. 3 |-> u[k].data],
                                  !.old = call.data[1],
                                  !.time_delta = time_delta,
                                  !.ticks = @ + 1,
                                  !.failed = \E k \in 1 .. 3 : u[k].undefined]
    /\ UnchangedProgram

NextFade == SetFadeInput \/ UpdateFade

SpecFade == InitFade /\ [][NextFade]_vars

\* ---- an AnimationNode ticked again and again: the root motion ------------------------
MaxMotionTicks == 4     \* number of updates of the node

\* time_delta is below the length of the clip
MotionDeltas == 1 .. AnimLength - 1

InitMotion ==
    /\ world = NewWorld /\ op = NoOp /\ crashed = FALSE /\ stream = <<>>
    /\ loaded = [done |-> FALSE] /\ animator = NoAnimator
    /\ module = NewModule
    /\ scene = NewScene
    /\ call \in [name : {"getRootMotion"}, looped : BOOLEAN,
                 anim : {Animation(AnimLength, step, turn_at) :
                           step \in 1 .. 2, turn_at \in {1, AnimLength \div 2, AnimLength + 1}},
                 start : {0}, old : {0}, t : {0}, ticks : {0},
                 root_motion : {LocalRigidTransform(0, 1)},
                 total : {LocalRigidTransform(0, 1)}]

\* one update of the node; total is the product of the root motions returned
UpdateMotion ==
    /\ call.name = "getRootMotion" /\ call.ticks < MaxMotionTicks
    /\ \E time_delta \in MotionDeltas :
          \E r \in {Tick(AnimationNode(1, 0, call.looped), call.anim, call.t, time_delta)} :
             call' = [call EXCEPT !.old = call.t, !.t = r.t, !.ticks = @ + 1,
                                  !.root_motion = r.root_motion,
                                  !.total = LocalRigidTransform_mul(@, r.root_motion)]
    /\ UnchangedProgram

NextMotion == UpdateMotion

SpecMotion == InitMotion /\ [][NextMotion]_vars

\* ---- the IK chains of one animator, tick after tick -----------------------------------
MaxIKTicks == 2

InitIK ==
    /\ world = NewWorld /\ op = NoOp /\ crashed = FALSE /\ stream = <<>>
    /\ loaded = [done |-> FALSE] /\ animator = NoAnimator
    /\ module = NewModule
    /\ scene = NewScene
    /\ call = [name |-> "updateIK", inverse_kinematics |-> [i \in 1 .. NumIK |-> 0],
               pose |-> [i \in 1 .. NumIK |-> "animated"], ticks |-> 0]

SetAnimatorIK ==
    /\ call.name = "updateIK" /\ call.ticks < MaxIKTicks
    /\ \E index \in 0 .. NumIK - 1, weight \in -1 .. WeightDen + 1 :
          call' = [call EXCEPT !.inverse_kinematics =
                                  setAnimatorIK(call.inverse_kinematics, index, weight)]
    /\ UnchangedProgram

\* updateAnimator: model->getRelativePose and evalBlendStack write the animated
\* pose, then the chains are solved
UpdateIK ==
    /\ call.name = "updateIK" /\ call.ticks < MaxIKTicks
    /\ call' = [call EXCEPT !.pose = updateAnimator_ik(call.inverse_kinematics,
                                                       [i \in 1 .. NumIK |-> "animated"], 0),
                            !.ticks = @ + 1]
    /\ UnchangedProgram

NextIK == SetAnimatorIK \/ UpdateIK

SpecIK == InitIK /\ [][NextIK]_vars

\* ---- an Animable updated again and again ----------------------------------------------
MaxClipLength == 3      \* the clip of the Animable is 1 .. MaxClipLength ticks long

MaxAnimableDelta == 7   \* time_delta is -MaxAnimableDelta .. MaxAnimableDelta ticks

MaxAnimableTicks == 3   \* number of updates of the Animable

InitAnimable ==
    /\ world = NewWorld /\ op = NoOp /\ crashed = FALSE /\ stream = <<>>
    /\ loaded = [done |-> FALSE] /\ animator = NoAnimator
    /\ module = NewModule
    /\ scene = NewScene
    /\ \E l \in 1 .. MaxClipLength :
          call = [name |-> "updateAnimable", animable |-> [time |-> 0, length |-> l],
                  time_delta |-> 0, ready |-> FALSE, ticks |-> 0]

UpdateAnimable ==
    /\ call.name = "updateAnimable" /\ call.ticks < MaxAnimableTicks
    /\ \E time_delta \in (0 - MaxAnimableDelta) .. MaxAnimableDelta, ready \in BOOLEAN :
          call' = [call EXCEPT !.animable = updateAnimable(@, time_delta, ready),
                               !.time_delta = time_delta, !.ready = ready,
                               !.ticks = @ + 1]
    /\ UnchangedProgram

NextAnimable == UpdateAnimable

SpecAnimable == InitAnimable /\ [][NextAnimable]_vars

\* ---- the out root motion of Node::update ----------------------------------------------
\* A root motion is a displacement along one axis here; the identity is 0.
IdentityMotion == 0

PlayedMotion == 2    \* what getRootMotion gives for the clips played in the tick

MaxGarbage == 2      \* an indeterminate root motion is one of 0 .. MaxGarbage

MaxOutTicks == 2     \* number of updates of the tree

\* the variable of the caller that update gets as root_motion
OutParam(rm, assigned) == [rm |-> rm, assigned |-> assigned, read_unassigned |-> FALSE]

\* root_motion = ...: the out parameter is written
AssignOut(rm, read_unassigned) ==
    [rm |-> rm, assigned |-> TRUE, read_unassigned |-> read_unassigned]

\* LocalRigidTransform::interpolate half way between the two
interpolateMotion(a, b) == (a + b) \div 2

\* Blend2DNode::update, Blend1DNode::update, ConditionNode::update,
\* AnimationNode::update, LayersNode::update, SelectNode::update and
\* GroupNode::update as far as root_motion goes: out is the variable of the
\* caller, garbage the value of a LocalRigidTransform tmp that is declared
\* without an initializer
RECURSIVE Node_updateOut(_, _, _)
Node_updateOut(node, out, garbage) ==
    CASE node.type = "animation" ->
           AssignOut(IF node.ready THEN PlayedMotion ELSE IdentityMotion, FALSE)
      [] node.type = "blend1d" ->
           AssignOut(IF node.ready THEN PlayedMotion ELSE IdentityMotion, FALSE)
      [] node.type = "blend2d" ->
           IF node.children > 2 /\ node.ready THEN AssignOut(PlayedMotion, FALSE) ELSE out
      [] node.type = "layers" ->
           IF node.children = <<>> THEN out
           ELSE LET tmp_rm == Node_updateOut(node.children[1], OutParam(garbage, FALSE), garbage)
                IN  AssignOut(tmp_rm.rm, tmp_rm.read_unassigned \/ ~tmp_rm.assigned)
      [] node.type \in {"condition", "select", "group"} ->
           IF Len(node.children) < (IF node.type = "condition" THEN 2 ELSE 1) THEN out
           ELSE IF node.crossfading /\ Len(node.children) > 1
           THEN LET from == Node_updateOut(node.children[1], out, garbage)
                    tmp  == Node_updateOut(node.children[2], OutParam(garbage, FALSE), garbage)
                IN  AssignOut(interpolateMotion(from.rm, tmp.rm),
                              \/ from.read_unassigned \/ ~from.assigned
                              \/ tmp.read_unassigned \/ ~tmp.assigned)
           ELSE Node_updateOut(node.children[1], out, garbage)

\* the node has nothing to play in the tick
NothingToPlay(node) ==
    \/ node.type = "blend2d" /\ ~node.ready
    \/ node.type = "blend1d" /\ ~node.ready
    \/ node.type = "condition" /\ Len(node.children) < 2
    \/ node.type \in {"select", "group", "layers"} /\ node.children = <<>>

OutLeaves ==
    [type : {"animation", "blend1d"}, ready : BOOLEAN]
    \cup [type : {"blend2d"}, children : {3}, ready : BOOLEAN]
    \cup [type : {"condition", "select", "group", "layers"}, children : {<<>>},
          crossfading : {FALSE}]

OutParents ==
    [type : {"condition", "select", "group"},
     children : {<<a, b>> : a \in {[type |-> "animation", ready |-> TRUE]}, b \in OutLeaves},
     crossfading : BOOLEAN]
    \cup [type : {"layers"}, children : {<<a>> : a \in OutLeaves}, crossfading : {FALSE}]

InitOut ==
    /\ world = NewWorld /\ op = NoOp /\ crashed = FALSE /\ stream = <<>>
    /\ loaded = [done |-> FALSE] /\ animator = NoAnimator
    /\ module = NewModule
    /\ scene = NewScene
    /\ call = [name |-> "updateOut", node |-> [type |-> "none"],
               root_motion |-> OutParam(IdentityMotion, TRUE), ticks |-> 0]

\* updateAnimator, line 632: animator.resource->update(*animator.ctx,
\* animator.root_motion): root_motion holds what the tick before left in it; the
\* tree is what the controller and the loaded animations make it in this tick
UpdateOut ==
    /\ call.name = "updateOut" /\ call.ticks < MaxOutTicks
    /\ \E node \in OutLeaves \cup OutParents, garbage \in 0 .. MaxGarbage :
          call' = [call EXCEPT !.node = node,
                               !.root_motion = Node_updateOut(node,
                                                  OutParam(call.root_motion.rm, TRUE),
                                                  garbage),
                               !.ticks = @ + 1]
    /\ UnchangedProgram

NextOut == UpdateOut

SpecOut == InitOut /\ [][NextOut]_vars

\* ---- the three crossfades ticked for ever ---------------------------------------------
\* the crossfade of controller k of the call goes on: t < m_blend_length in the
\* Condition (line 511), from # to in the Select and the Group (lines 837, 961)
InCrossfade(c, k) ==
    IF k = 1 THEN c.data[1][1].t < c.blend_length
    ELSE c.data[k][1].from # c.data[k][1].to

InitCross ==
    /\ world = NewWorld /\ op = NoOp /\ crashed = FALSE /\ stream = <<>>
    /\ loaded = [done |-> FALSE] /\ animator = NoAnimator
    /\ module = NewModule
    /\ scene = NewScene
    /\ \E blend_length \in 0 .. MaxBlendLength :
          call = [name |-> "crossfade", blend_length |-> blend_length, input |-> FALSE,
                  data |-> [k \in 1 .. 3 |->
                              createRuntime(FadeControllers(blend_length)[k]).data],
                  old |-> <<>>, time_delta |-> 0, ticks |-> 0, failed |-> FALSE,
                  elapsed |-> [k \in 1 .. 3 |-> 0], posed |-> [k \in 1 .. 3 |-> 0]]

SetCrossInput ==
    /\ call.name = "crossfade" /\ ~call.failed
    /\ call' = [call EXCEPT !.input = ~@]
    /\ UnchangedProgram

\* one update and one getPose of each of the three controllers in every frame,
\* with no end: ticks says only whether the number of updates is odd or even;
\* elapsed is the sum of the time deltas of the ticks of the crossfade, posed the
\* number of records of the stream the getPose pass has read
UpdateCross ==
    /\ call.name = "crossfade" /\ ~call.failed
    /\ \E time_delta \in 1 .. MaxTimeDelta :
          \E u \in {[k \in 1 .. 3 |-> FadeUpdate(k, time_delta)]} :
             \E p \in {[k \in 1 .. 3 |->
                          Controller_getPose(FadeControllers(call.blend_length)[k], u[k])]} :
                call' = [call EXCEPT
                           !.data = [k \in 1 .. 3 |-> CapIdleTime(u[k].data)],
                           !.old = call.data[1],
                           !.time_delta = time_delta,
                           !.ticks = 1 + (@ % 2),
                           !.failed = \E k \in 1 .. 3 : u[k].undefined \/ p[k].undefined,
                           !.elapsed = [k \in 1 .. 3 |->
                                          IF InCrossfade(call, k)
                                          THEN call.elapsed[k] + time_delta ELSE 0],
                           !.posed = [k \in 1 .. 3 |-> p[k].pos]]
    /\ UnchangedProgram

NextCross == SetCrossInput \/ UpdateCross

SpecCross == InitCross /\ [][NextCross]_vars

\* ---- properties of the hierarchy and of the entity life cycle --------------
\* the sibling chain that starts at c, cut after fuel entities
RECURSIVE SiblingChain(_, _, _)
SiblingChain(w, c, fuel) ==
    IF ~isValid(c) \/ fuel = 0 THEN <<>>
    ELSE <<c>> \o SiblingChain(w, getNextSibling(w, c), fuel - 1)

ChildChain(w, p) == SiblingChain(w, getFirstChild(w, p), Fuel(w))
Occurrences(seq, e) == Cardinality({i \in 1 .. Len(seq) : seq[i] = e})

RECURSIVE ReachesRoot(_, _, _)
ReachesRoot(w, e, fuel) ==
    IF ~isValid(e) THEN TRUE
    ELSE IF fuel = 0 THEN FALSE
    ELSE ReachesRoot(w, getParent(w, e), fuel - 1)

\* a is reached from d by following getParent one or more times
RECURSIVE HasAncestor(_, _, _, _)
HasAncestor(w, d, a, fuel) ==
    LET p == getParent(w, d)
    IN IF ~isValid(p) \/ fuel = 0 THEN FALSE
       ELSE p = a \/ HasAncestor(w, p, a, fuel - 1)

IsDescendantOf(w, d, a) == HasAncestor(w, d, a, Fuel(w))

\* the step is a call of the named operation that returned
Returned(name) == ~crashed' /\ op'.name = name

\* C1: the parent graph is acyclic in every reachable state: following
\* getParent from any live entity reaches INVALID_ENTITY without revisiting
\* an entity.
C1_ParentGraphAcyclic ==
    \A e \in Live(world) : ReachesRoot(world, e, Size(world.m_entities))

\* C2: after setParent(p, e) with p live and not a descendant of e:
\* getParent(e) = p, e is exactly once in p's child chain, e is no longer in
\* the child chain of its previous parent, and every entity of p's child
\* chain has parent p.
C2_SetParentLinksChild ==
    [][ (/\ Returned("setParent")
         /\ isValid(op'.parent)
         /\ ~IsDescendantOf(world, op'.parent, op'.entity))
        => (/\ ~op'.error
            /\ getParent(world', op'.entity) = op'.parent
            /\ Occurrences(ChildChain(world', op'.parent), op'.entity) = 1
            /\ (isValid(op'.old_parent) /\ op'.old_parent # op'.parent
                  => Occurrences(ChildChain(world', op'.old_parent), op'.entity) = 0)
            /\ \A i \in 1 .. Len(ChildChain(world', op'.parent)) :
                  getParent(world', ChildChain(world', op'.parent)[i]) = op'.parent)
      ]_vars

\* C2 witness: a child was moved from one parent to another one
C2_Witness ==
    /\ op.name = "setParent" /\ ~op.error
    /\ isValid(op.parent) /\ isValid(op.old_parent) /\ op.old_parent # op.parent
    /\ getParent(world, op.entity) = op.parent
    /\ Len(ChildChain(world, op.parent)) >= 2

\* C3: setParent(d, e) with d a descendant of e changes nothing in the world
\* (links, cached local transforms, world transforms, hierarchy records) and
\* logs an error.
C3_CycleRejectedIsNoOp ==
    [][ (/\ Returned("setParent")
         /\ isValid(op'.parent)
         /\ IsDescendantOf(world, op'.parent, op'.entity))
        => (world' = world /\ op'.error)
      ]_vars

\* C3 witness: a call that asked to put an entity under its grandchild was
\* rejected
C3_Witness ==
    /\ op.name = "setParent" /\ op.error
    /\ isValid(op.parent)
    /\ isValid(getParent(world, op.parent))
    /\ getParent(world, op.parent) # op.entity
    /\ IsDescendantOf(world, op.parent, op.entity)

\* C4: hasEntity(e) is true right after the createEntity call that returned
\* e, false right after destroyEntity(e), and an index that is not live
\* becomes live only by a createEntity call that returns it.
C4_HasEntityFollowsLifeCycle ==
    [][ /\ (Returned("createEntity") => hasEntity(world', op'.ret))
        /\ (Returned("destroyEntity") => ~hasEntity(world', op'.entity))
        /\ \A e \in 0 .. MaxEntities - 1 :
              (~hasEntity(world, e) /\ hasEntity(world', e))
                 => (Returned("createEntity") /\ op'.ret = e)
      ]_vars

\* C4 witness: an index was destroyed and then returned again by createEntity
\* while another entity stayed dead
C4_Witness ==
    /\ op.name = "createEntity"
    /\ op.ret < Size(world.m_entities) - 1
    /\ hasEntity(world, op.ret)
    /\ \E e \in 0 .. Size(world.m_entities) - 1 : ~hasEntity(world, e)

\* C10: after destroyEntity(e): every former child of e has no parent and
\* the world transform it had, e is not in the child chain of its former
\* parent, and no hierarchy record refers to e.
C10_DestroyDetaches ==
    [][ Returned("destroyEntity")
        => (/\ \A c \in op'.old_children :
                  /\ getParent(world', c) = INVALID_ENTITY
                  /\ c # op'.entity => getTransform(world', c) = getTransform(world, c)
            /\ isValid(op'.old_parent) /\ op'.old_parent # op'.entity
                  => Occurrences(ChildChain(world', op'.old_parent), op'.entity) = 0
            /\ \A i \in 1 .. Len(world'.m_hierarchy) :
                  LET h == world'.m_hierarchy[i]
                  IN /\ h.entity # op'.entity
                     /\ h.parent # op'.entity
                     /\ h.first_child # op'.entity
                     /\ h.next_sibling # op'.entity)
      ]_vars

\* C10 witness: the destroyed entity had a parent and a child, and the
\* parent keeps another child
C10_Witness ==
    /\ op.name = "destroyEntity"
    /\ isValid(op.old_parent) /\ op.old_parent # op.entity
    /\ op.old_children # {} /\ op.entity \notin op.old_children
    /\ ~hasEntity(world, op.entity)
    /\ \A c \in op.old_children : getParent(world, c) = INVALID_ENTITY

\* C6: the world transform of every entity with a parent is the parent's
\* world transform composed with the entity's cached local transform; with
\* identity rotations and unit scales its position is the parent's position
\* plus the local position.
C6_WorldIsParentTimesLocal ==
    \A c \in Live(world) :
        LET p == getParent(world, c)
            local == getLocalTransform(world, c)
        IN isValid(p) =>
              /\ getTransform(world, c) = TransformMul(getTransform(world, p), local)
              /\ (getTransform(world, p).rot = 1 /\ getTransform(world, p).scale = Vec3(1))
                    => getTransform(world, c).pos = getTransform(world, p).pos + local.pos

\* C6 witness: the parent was moved by setPosition and its child, which has
\* a non-zero local position, moved with it
C6_Witness ==
    /\ op.name = "setPosition"
    /\ \E c \in Live(world) :
          /\ getParent(world, c) = op.entity
          /\ c # op.entity
          /\ getTransform(world, op.entity) = [IdentityTransform EXCEPT !.pos = 1]
          /\ getLocalTransform(world, c).pos = 1
          /\ getTransform(world, c).pos = 2

\* the chain of slots from c on, following EntityData::next, cut after fuel
\* slots
RECURSIVE FreeChainFrom(_, _, _)
FreeChainFrom(w, c, fuel) ==
    IF c < 0 \/ fuel = 0 THEN <<>>
    ELSE <<c>> \o FreeChainFrom(w, At(w.m_entities, c).next, fuel - 1)

FreeChain(w) == FreeChainFrom(w, w.m_first_free_slot, Size(w.m_entities) + 1)
NonLive(w) == (0 .. Size(w.m_entities) - 1) \ Live(w)

FreeListExact(w) ==
    /\ Len(FreeChain(w)) = Cardinality(NonLive(w))
    /\ {FreeChain(w)[i] : i \in 1 .. Len(FreeChain(w))} = NonLive(w)

\* C5: the free chain from m_first_free_slot visits exactly the non-live
\* slots, each once, and ends at -1; createEntity returns an index that was
\* not live and takes a free slot whenever there is one.
C5_FreeListExact ==
    /\ [] FreeListExact(world)
    /\ [][ Returned("createEntity")
           => (/\ ~hasEntity(world, op'.ret)
               /\ NonLive(world) # {} => op'.ret \in NonLive(world)
               /\ NonLive(world) = {} => op'.ret = Size(world.m_entities))
         ]_vars

\* C5 witness: createEntity reused a slot from the middle of the array while
\* other slots, one of them brought to life by emplaceEntity, are around it
C5_Witness ==
    /\ op.name = "createEntity"
    /\ op.ret = 1
    /\ Size(world.m_entities) = 3
    /\ NonLive(world) # {}
    /\ hasEntity(world, 1)

\* the image of an entity reference of the saved world in the loaded world
Image(e) == EntityMap_get(loaded.map, e)

\* C7: after serialize and deserialize into a fresh World (vec3_scale =
\* true), every live entity e of the saved world has an image e' with the
\* same position, rotation and scale, the same name, and parent, first
\* child and next sibling equal to the images of e's.
C7_RoundTrip ==
    loaded.done =>
        \A e \in Live(world) :
            /\ hasEntity(loaded.w, Image(e))
            /\ getTransform(loaded.w, Image(e)) = getTransform(world, e)
            /\ getEntityName(loaded.w, Image(e)) = getEntityName(world, e)
            /\ getParent(loaded.w, Image(e)) = Image(getParent(world, e))
            /\ getFirstChild(loaded.w, Image(e)) = Image(getFirstChild(world, e))
            /\ getNextSibling(loaded.w, Image(e)) = Image(getNextSibling(world, e))

\* ---- properties of the runtime stream ------------------------------------------
\* every read of the pass found a record the reading node itself wrote, and
\* the pass ended with the read cursor at the end of input_runtime
PassAligned(pass) ==
    pass.ran => ~pass.undefined /\ ~pass.misread /\ pass.read = pass.size

\* C8: the records an update pass writes are the records the following
\* getPose pass and the following update pass read, in the same order and of
\* the same types, and each pass ends with its read cursor at the end of the
\* stream
C8_PassesReadWhatWasWritten ==
    PassAligned(animator.update_pass) /\ PassAligned(animator.pose_pass)

\* C9: every call of skip in the update pass advanced the read cursor by
\* the records the skipped node and the nodes below it wrote in the previous
\* pass, and wrote nothing to data
C9_SkipAdvancesWhatWasWritten ==
    \A i \in 1 .. Len(animator.update_pass.skips) :
        /\ ~animator.update_pass.skips[i].undefined
        /\ animator.update_pass.skips[i].advanced = animator.update_pass.skips[i].written
        /\ animator.update_pass.skips[i].wrote = 0

\* ---- properties of the components ----------------------------------------
\* the calls of destroy methods among the events of a destroyEntity
DestroyCalls(events) == SelectSeq(events, LAMBDA ev : ev.kind = "destroy")

\* C11: destroyEntity(e) calls the destroy method once for every component
\* type of e's mask, while e is still an entity, off the hierarchy and not
\* on the free list; the entity-destroyed notification comes last, after
\* the slot was pushed on the free list; the mask is empty afterwards.
C11_DestroyCallsEveryComponent ==
    [][ Returned("destroyEntity")
        => (LET mask == At(world.m_entities, op'.entity).components
                events == op'.events
                calls == DestroyCalls(op'.events)
            IN /\ Len(calls) = Cardinality(mask)
               /\ \A t \in mask : \E i \in 1 .. Len(calls) : calls[i].type = t
               /\ \A i \in 1 .. Len(calls) :
                     calls[i].valid /\ ~calls[i].linked /\ ~calls[i].free
               /\ Len(events) = Len(calls) + 1
               /\ events[Len(events)].kind = "entity_destroyed"
               /\ events[Len(events)].free /\ ~events[Len(events)].valid
               /\ At(world'.m_entities, op'.entity).components = {})
      ]_vars

\* C11 witness: an entity with a parent and two components was destroyed
C11_Witness ==
    /\ op.name = "destroyEntity"
    /\ isValid(op.old_parent) /\ op.old_parent # op.entity
    /\ Len(DestroyCalls(op.events)) = 2
    /\ ~hasEntity(world, op.entity)

\* ---- properties of the hierarchy records -----------------------------------
\* C12: an entity has a hierarchy record exactly if it has a valid parent or
\* a child, and the hierarchy index of every entity with a record addresses
\* the record whose entity field is that entity (no record is left behind
\* by a removal, none is addressed twice).
C12_RecordIffParentOrChild ==
    /\ \A e \in Live(world) :
          At(world.m_entities, e).hierarchy >= 0
             <=> (isValid(getParent(world, e)) \/ ChildrenOf(world, e) # {})
    /\ \A e \in Live(world) :
          LET idx == At(world.m_entities, e).hierarchy
          IN idx >= 0 => idx < Size(world.m_hierarchy)
                         /\ At(world.m_hierarchy, idx).entity = e
    /\ \A i \in 0 .. Size(world.m_hierarchy) - 1 :
          LET h == At(world.m_hierarchy, i)
          IN hasEntity(world, h.entity) /\ At(world.m_entities, h.entity).hierarchy = i
                /\ (isValid(h.parent) \/ isValid(h.first_child))

\* C12 witness: setParent(INVALID_ENTITY, c) took one of two children from
\* its parent; the record of c was removed, the parent and the other child
\* keep theirs
C12_Witness ==
    /\ op.name = "setParent" /\ op.parent = INVALID_ENTITY
    /\ isValid(op.old_parent) /\ op.old_parent # op.entity
    /\ hasEntity(world, op.entity) /\ hasEntity(world, op.old_parent)
    /\ At(world.m_entities, op.entity).hierarchy < 0
    /\ At(world.m_entities, op.old_parent).hierarchy >= 0
    /\ Size(world.m_hierarchy) = 2

\* ---- properties of the partitions -------------------------------------------
\* C13: an entity that createEntity or emplaceEntity brings to life belongs
\* to the partition that is active at that moment, and it stays in that
\* partition as long as it lives.
C13_PartitionIsActiveAtCreation ==
    [][ /\ Returned("createEntity")
            => getPartition(world', op'.ret) = world.m_active_partition
        /\ Returned("emplaceEntity")
            => getPartition(world', op'.entity) = world.m_active_partition
        /\ \A e \in Live(world) \cap Live(world') :
               getPartition(world', e) = getPartition(world, e)
      ]_vars

\* ---- properties of the Group transitions --------------------------------------
\* the animator runs GroupWithTransitions on its looped clip (child 0) with
\* no crossfade going on, the guard of child 0 is false and the guard of
\* child 1, the target of the transition with exit time 1/ExitTimeDen, is
\* true
AtExitGate ==
    /\ animator.resource = GroupWithTransitions /\ animator.has_ctx /\ ~animator.failed
    /\ animator.data[1].from = 0 /\ animator.data[1].to = 0
    /\ animator.inputs[1] = TRUE

\* the point loop_start + e * length of the running clip lies in the window
\* [time, time + time_delta) of a tick
ExitPointInWindow(clip_time, time_delta) ==
    LET point == (clip_time - (clip_time % AnimLength)) + AnimLength \div ExitTimeDen
    IN clip_time <= point /\ point < clip_time + time_delta

\* C14: the transition with the exit-time gate fires in a tick exactly if
\* the exit point of the running clip lies in the window of the tick.
C14_ExitTimeGate ==
    [][ (AtExitGate /\ animator'.ticks = animator.ticks + 1 /\ ~animator'.failed)
        => ((animator'.data[1].from = 0 /\ animator'.data[1].to = 1)
               <=> ExitPointInWindow(animator.data[2].t, animator'.time_delta))
      ]_vars

\* C14 witness: the transition fired in a tick that began before the exit
\* point of the second loop of the clip and ended after it
C14_Witness ==
    /\ animator.resource = GroupWithTransitions /\ animator.has_ctx /\ ~animator.failed
    /\ animator.data[1].from = 0 /\ animator.data[1].to = 1 /\ animator.data[1].t = 0
    /\ animator.data[2].t > AnimLength + AnimLength \div ExitTimeDen
    /\ animator.time_delta = MaxTimeDelta

\* ---- properties of the AnimationNode -----------------------------------------
\* the tick from t by 2 * half stays within one loop of the clip
NoLoopWrap(c) ==
    c.looped => c.t + 2 * c.half <= ((c.t \div c.anim.length) + 1) * c.anim.length

\* C15: without a loop wrap, one update by dt and two updates by dt / 2 store
\* the same Time, and the root motions of the two halves compose to the
\* root motion of the whole tick.
C15_TickSplitting ==
    (call.name = "AnimationNode::update" /\ call.done /\ NoLoopWrap(call))
       => /\ call.halves.t = call.whole.t
          /\ call.halves.root_motion = call.whole.root_motion

\* ---- properties of the Blend1D node ----------------------------------------
\* the pair of a Blend1D call is child i alone, with weight 0
Alone(pair, i) == pair.a = i /\ pair.b = -1 /\ pair.t.num = 0

\* the pair of a call whose input lies strictly between the first and the
\* last value: the children around the input, and the weight in [0, 1)
Bracketing(c) ==
    LET first == Minimum({i \in 1 .. Len(c.children) - 1 :
                             c.input_val < At(c.children, i).value})
    IN /\ c.pair.a = first - 1 /\ c.pair.b = first
       /\ c.pair.t.den # 0
       /\ c.pair.t.num * (At(c.children, first).value - At(c.children, first - 1).value)
             = (c.input_val - At(c.children, first - 1).value) * c.pair.t.den
       /\ 0 <= c.pair.t.num /\ c.pair.t.num < c.pair.t.den

\* C16 as stated: first child alone at or below the first value, last child
\* alone at or above the last value, the bracketing pair in between.
C16_ActivePairAsStated ==
    (call.name = "getActivePair" /\ call.done)
       => /\ call.input_val <= At(call.children, 0).value => Alone(call.pair, 0)
          /\ call.input_val >= Back(call.children).value
                => Alone(call.pair, Size(call.children) - 1)
          /\ (At(call.children, 0).value < call.input_val
                 /\ call.input_val < Back(call.children).value) => Bracketing(call)

\* C16: first child alone at or below the first value; above it, last child
\* alone at or above the last value, and the bracketing pair with its
\* weight in [0, 1) below the last value.
C16_ActivePair ==
    (call.name = "getActivePair" /\ call.done)
       => /\ call.input_val <= At(call.children, 0).value => Alone(call.pair, 0)
          /\ (call.input_val > At(call.children, 0).value
                 /\ call.input_val >= Back(call.children).value)
                => Alone(call.pair, Size(call.children) - 1)
          /\ (At(call.children, 0).value < call.input_val
                 /\ call.input_val < Back(call.children).value) => Bracketing(call)

\* C16 witness: children at 0 and 1 (two halves), input 0.5: both children
\* with weight 0.5
C16_Witness ==
    /\ call.name = "getActivePair" /\ call.done
    /\ Len(call.children) = 2
    /\ call.children[1].value = 0 /\ call.children[2].value = 2 /\ call.input_val = 1
    /\ call.pair.a = 0 /\ call.pair.b = 1 /\ 2 * call.pair.t.num = call.pair.t.den

\* the sign of the cross product of b - a and p - a, p over InputDen
Side(a, b, p) ==
    (b.x - a.x) * (p.y - InputDen * a.y) - (b.y - a.y) * (p.x - InputDen * a.x)

\* p lies strictly inside the triangle a b c
StrictlyInside(p, a, b, c) ==
    \/ Side(a, b, p) > 0 /\ Side(b, c, p) > 0 /\ Side(c, a, p) > 0
    \/ Side(a, b, p) < 0 /\ Side(b, c, p) < 0 /\ Side(c, a, p) < 0

\* C17: with exactly three children that are not collinear, dataChanged yields the
\* one triangle of the three, and an input strictly inside it selects the three
\* children with weights that are not negative and sum to 1
C17_TrioOfThreeChildren ==
    (call.name = "getActiveTrio" /\ call.changed
       /\ StrictlyInside(call.input_val, call.values[1], call.values[2], call.values[3]))
    => /\ Len(call.m_triangles) = 1
       /\ {call.m_triangles[1].a, call.m_triangles[1].b, call.m_triangles[1].c} = {0, 1, 2}
       /\ call.done
            => /\ {call.trio.a, call.trio.b, call.trio.c} = {0, 1, 2}
               /\ call.trio.den > 0
               /\ call.trio.ta >= 0 /\ call.trio.tb >= 0 /\ call.trio.tc >= 0
               /\ call.trio.ta + call.trio.tb + call.trio.tc = call.trio.den

\* the controller of animator a is set and ready
ControllerReady(m, a) ==
    /\ m.m_animators[a].resource # 0
    /\ m.resources[m.m_animators[a].resource].state = "READY"

\* C18: an animator gets a runtime context only when its controller is ready and
\* the game is running, and it has none whenever its controller is null, was
\* replaced or is not ready, whatever the order of startGame, stopGame, resource
\* state changes, setAnimatorSource and update
C18_RuntimeStateMachine ==
    [][/\ \A a \in DOMAIN module.m_animators :
             (module.m_animators[a].ctx = 0 /\ module'.m_animators[a].ctx # 0)
             => ControllerReady(module', a) /\ module'.m_is_game_running
       /\ \A a \in DOMAIN module'.m_animators :
             module'.m_animators[a].ctx # 0
             => /\ ControllerReady(module', a)
                /\ module'.m_animators[a].ctx = module'.m_animators[a].resource]_vars

\* C19: a controller swap destroys the old runtime context before it installs the
\* new resource reference, no createRuntime overwrites a live context, and the
\* context of an animator was created by its current resource
C19_SwapDestroysOldContext ==
    /\ \A k \in DOMAIN module.log :
          module.log[k].call \in {"createRuntime", "install"} => module.log[k].old = 0
    /\ \A a \in DOMAIN module.m_animators :
          module.m_animators[a].ctx # 0
          => module.m_animators[a].ctx = module.m_animators[a].resource

\* the orders in which n jobs can run one after another
Orders(n) ==
    {order \in [1 .. n -> 0 .. n - 1] : \A i, j \in 1 .. n : order[i] = order[j] => i = j}

\* the world transforms and the cached local transforms
WorldView(w) ==
    <<w.m_transforms, [i \in DOMAIN w.m_hierarchy |-> w.m_hierarchy[i].local_transform]>>

\* C20: when the animators were updated in parallel, whatever the interleaving of
\* their steps, the world transforms and the local transforms of all entities are
\* those of running the same updates one after another, also when the entity of
\* one animator is an ancestor of the entity of another and both use root motion
C20_ParallelUpdatesIndependent ==
    (call.name = "update" /\ ~crashed
       /\ \A j \in DOMAIN call.jobs : call.jobs[j].pc = "done")
    => \E order \in Orders(Len(call.jobs)) :
          WorldView(world) = WorldView(updateInOrder(call.start, call.jobs, order))

\* C21: in one update every animable update has completed before a property
\* animator is updated, and every property animator has been updated before an
\* animator update starts; an update while the game is not running runs no phase
\* and changes no state
C21_PhaseBarrier ==
    [][/\ scene'.phase # "idle"
          => /\ (\E i \in DOMAIN scene'.m_property_animators :
                    scene'.m_property_animators[i].updated)
                => \A i \in DOMAIN scene'.m_animables :
                      scene'.m_animables[i].job.pc = "done"
             /\ (\E i \in DOMAIN scene'.m_animators :
                    scene'.m_animators[i].job.pc # "pending")
                => /\ \A i \in DOMAIN scene'.m_animables :
                         scene'.m_animables[i].job.pc = "done"
                   /\ \A i \in DOMAIN scene'.m_property_animators :
                         scene'.m_property_animators[i].updated
       /\ (scene.last # "not running" /\ scene'.last = "not running")
          => /\ scene' = [scene EXCEPT !.last = "not running"]
             /\ UNCHANGED <<world, module, animator>>]_vars

C21_Witness ==
    /\ scene.phase = "animators"
    /\ Len(scene.m_animables) > 0 /\ Len(scene.m_property_animators) > 0
    /\ \E i \in DOMAIN scene.m_animators : scene.m_animators[i].job.pc = "locked"
    /\ \E i \in DOMAIN scene.m_animables : ~scene.m_animables[i].job.early

\* the jobs that hold the pose lock of entity e
PoseLockHolders(s, e) ==
    {<<kind, i>> \in {"m_animables", "m_animators"} \X (1 .. NumSceneEntities) :
        /\ i \in DOMAIN s[kind]
        /\ s[kind][i].entity = e
        /\ s[kind][i].job.pc \in {"locked", "written"}}

\* C22: every pose lock taken by updateAnimable or updateAnimator is released
\* exactly once before the update returns, no pose is written without the lock,
\* and no two workers hold the pose lock of one entity at the same time
C22_PoseLockDiscipline ==
    \A e \in 1 .. NumSceneEntities :
        /\ scene.entities[e].lock = Cardinality(PoseLockHolders(scene, e))
        /\ scene.entities[e].lock <= 1
        /\ ~scene.entities[e].unlocked_write
        /\ scene.phase = "idle" => scene.entities[e].lock = 0

C22_Witness ==
    /\ scene.phase = "idle" /\ scene.frames > 0
    /\ \E i \in DOMAIN scene.m_animators :
          /\ scene.m_animators[i].job.pc = "done" /\ ~scene.m_animators[i].job.early
          /\ scene.entities[scene.m_animators[i].entity].pose = "animator"
    /\ \E i \in DOMAIN scene.m_animables :
          scene.m_animables[i].job.pc = "done" /\ ~scene.m_animables[i].job.early

\* C24: in a tick in which updateAnimator returns early (controller not ready, no
\* ready model or no pose), the world transform and the pose of the entity are
\* unchanged and the root motion of the animator is the identity
C24_EarlyReturnRootMotion ==
    \A i \in DOMAIN scene.m_animators :
        (scene.phase = "animators" /\ scene.m_animators[i].job.pc = "done"
           /\ scene.m_animators[i].job.early)
        => /\ scene.entities[scene.m_animators[i].entity] = scene.m_animators[i].job.before
           /\ scene.m_animators[i].root_motion = LocalRigidTransform(0, 1)

\* C25: a typed input set with an index that is out of range, with a value of
\* another type than the input declares, or on an animator without a runtime
\* context leaves every input value unchanged and makes no null or out-of-range
\* access, in setAnimatorInput and in setAnimatorFloatInput / I32Input / BoolInput
C25_InvalidInputIgnored ==
    (call.name \in {"setAnimatorInput", "setAnimatorTypedInput"} /\ call.done
       /\ (\/ ~call.a.has_ctx
           \/ call.input_idx >= Len(call.a.m_inputs)
           \/ call.a.m_inputs[call.input_idx + 1] # call.type))
    => call.result = SetterResult(call.a.inputs, "none")

\* C23: for a node of every class, deserialize reads the fields serialize wrote in
\* the order they were written, so that a node serialized and deserialized has
\* the configuration of the node written and the read cursor is at the end of the
\* blob of the node
C23_NodeRoundTrip ==
    (call.name = "serializeNode" /\ call.done)
    => /\ call.result.ok
       /\ call.result.node = call.node
       /\ call.result.pos = Len(call.blob) + 1

\* the number of times event number i is in the sequence events
TimesEmitted(events, i) == Cardinality({k \in 1 .. Len(events) : events[k] = i})

\* rel_time is in the window of a tick from time old to time new of a clip of
\* length len, both ends of the window taken as the u16 fraction of the clip
InTickWindow(rel_time, old, new, len) ==
    LET from == relTime(old % len, len)
        to == relTime(new % len, len)
    IN IF new = old THEN FALSE
       ELSE IF new % len > old % len THEN rel_time >= from /\ rel_time < to
       ELSE rel_time >= from \/ rel_time < to

\* C26: in every tick of an Animation node (0 < time_delta < length of the clip)
\* an event is emitted once if the window [old time, new time) of the tick
\* contains the time of the event, a window that wraps past the end of the loop
\* included, and is not emitted otherwise
C26_EventsOncePerPass ==
    (call.name = "emitEvents" /\ call.done)
    => \A i \in 1 .. Len(call.node.m_events) :
          TimesEmitted(call.events, i)
            = IF InTickWindow(call.node.m_events[i], call.old, call.t, AnimLength)
              THEN 1 ELSE 0

\* ---- properties of the Group node ---------------------------------------------------
\* the Group at the root has no crossfade going on and runs child cur
GroupIdleAt(cur) ==
    /\ animator.resource.type = "group" /\ animator.has_ctx /\ ~animator.failed
    /\ animator.data[1].from = cur /\ animator.data[1].to = cur

\* the children the scan of the children can jump to from child cur
OtherSelectable(cur) == Selectable(animator.resource, animator) \ {cur}

\* a transition from child cur (or from the wildcard) to another child whose
\* guard holds, that has no exit time or whose exit point is in the window of the
\* tick by time_delta
ExplicitTransitionFires(cur, time_delta) ==
    \E i \in 1 .. Len(animator.resource.m_transitions) :
       LET transition == animator.resource.m_transitions[i]
       IN /\ transition.from \in {cur, Wildcard}
          /\ transition.to \notin {cur, Wildcard}
          /\ eval(At(animator.resource.m_children, transition.to).condition, animator)
          /\ (transition.exit_time >= 0
                => ExitPointInWindow(animator.data[2].t, time_delta))

\* the tick of the Group at the root has begun a crossfade to child to
JumpedTo(cur, to) ==
    /\ animator'.data[1].from = cur /\ animator'.data[1].to = to
    /\ animator'.data[1].t = 0

\* C27: a Group with no crossfade going on, whose current child is not selectable
\* or has a guard that fails, and of which no transition fires in the tick, jumps
\* to the first other selectable child whose guard holds, with the blend length
\* of the Group, whatever the transitions of the table are
C27_GroupFallback ==
    [][ \A cur \in 0 .. MaxNodeChildren :
          (/\ GroupIdleAt(cur)
           /\ cur \notin Selectable(animator.resource, animator)
           /\ OtherSelectable(cur) # {}
           /\ animator'.ticks = animator.ticks + 1 /\ ~animator'.failed
           /\ ~ExplicitTransitionFires(cur, animator'.time_delta))
          => /\ JumpedTo(cur, Minimum(OtherSelectable(cur)))
             /\ animator'.data[1].blend_length = animator.resource.m_blend_length
      ]_vars

\* C28: a transition from the current child to the wildcard is not gated by its
\* exit time: in a tick in which it is looked at (no crossfade going on, the
\* current child not selectable or its guard false) the Group jumps to the first
\* other selectable child whose guard holds, wherever the exit point lies
C28_WildcardNotGated ==
    [][ \A cur \in 0 .. MaxNodeChildren :
          (/\ GroupIdleAt(cur)
           /\ cur \notin Selectable(animator.resource, animator)
           /\ animator.resource.m_transitions # <<>>
           /\ \A i \in 1 .. Len(animator.resource.m_transitions) :
                 /\ animator.resource.m_transitions[i].from = cur
                 /\ animator.resource.m_transitions[i].to = Wildcard
           /\ OtherSelectable(cur) # {}
           /\ animator'.ticks = animator.ticks + 1 /\ ~animator'.failed)
          => JumpedTo(cur, Minimum(OtherSelectable(cur)))
      ]_vars

\* ---- properties of the crossfades ----------------------------------------------------
\* the last update of a controller of two clips has written the runtime of both
\* clips: both children are active and both are sampled by getPose
Crossfading(data) == Len(data) = 3

\* C29: with the same blend length and the same time deltas, a crossfade that
\* began in the same tick in a Condition, a Select and a Group node ends in the
\* same tick in all three, and with a blend length of zero there is no tick
\* after which both children are active
C29_SameCrossfade ==
    (call.name = "crossfade" /\ ~call.failed)
    => /\ Crossfading(call.data[1]) = Crossfading(call.data[2])
       /\ Crossfading(call.data[1]) = Crossfading(call.data[3])
       /\ call.blend_length = 0
            => ~(\E k \in 1 .. 3 : Crossfading(call.data[k]))

\* the branch of the Condition of FadeControllers that data fades from
OldBranch(data) == IF data.is_true THEN 2 ELSE 3

\* the update has advanced the Time record before of a clip by time_delta
Advanced(before, after, time_delta) ==
    after.node = before.node /\ after.t = Minimum({before.t + time_delta, AnimLength})

C31_StoredTime ==
    [][ (call.name = "emitEvents" /\ call'.ticks = call.ticks + 1)
        => call'.t = IF call.node.looped
                     THEN (call.t + call'.time_delta) % AnimLength
                     ELSE Minimum({call.t + call'.time_delta, AnimLength})
      ]_vars

\* ---- properties of the root motion ----------------------------------------------------
\* the motion of the root of the clip from time a to time b >= a, played loop
\* after loop: the product of the motions of the single ticks of time
RECURSIVE TraversedMotion(_, _, _)
TraversedMotion(anim, a, b) ==
    IF a >= b THEN LocalRigidTransform(0, 1)
    ELSE LocalRigidTransform_mul(
            LocalRigidTransform_mul(
               LocalRigidTransform_inverted(Animation_getRootMotion(anim, a % anim.length)),
               Animation_getRootMotion(anim, (a % anim.length) + 1)),
            TraversedMotion(anim, a + 1, b))

\* C32: with a time_delta below the length of the clip, the root motion of a tick
\* is the motion of the clip over the interval of the tick, across the end of the
\* loop too, and the root motions of the ticks so far compose to the motion over
\* the whole interval played, for a looped node and for a clamped one
C32_RootMotionComposes ==
    (call.name = "getRootMotion" /\ call.ticks > 0)
    => /\ call.root_motion = TraversedMotion(call.anim, call.old, call.t)
       /\ call.total = TraversedMotion(call.anim, call.start, call.t)

\* C32 witness: ticks of a looped node whose last one went across the end of the
\* loop, and ticks of a clamped node that has reached the end of the clip
C32_Witness ==
    /\ call.name = "getRootMotion" /\ call.ticks > 2
    /\ call.anim.turn_at < AnimLength
    /\ IF call.looped
       THEN call.t > AnimLength /\ call.old < AnimLength /\ call.t % AnimLength # 0
       ELSE call.t = AnimLength /\ call.old < AnimLength

\* ---- properties of the inverse kinematics ---------------------------------------------
\* C33: in every tick of an animator the chain of slot i is solved and blended
\* into the pose exactly if the weight of slot i is above 0, whatever the weights
\* of the other slots are
C33_IKBySlotWeight ==
    [][ (call.name = "updateIK" /\ call'.ticks = call.ticks + 1)
        => \A i \in 1 .. NumIK :
              (call'.pose[i] = "ik") <=> (call.inverse_kinematics[i] > 0)
      ]_vars

\* ---- properties of the references of the animation module ----------------------------
\* the number of the elements of records for which Points holds
CountRecords(records, Points(_)) ==
    Cardinality({i \in DOMAIN records : Points(records[i])})

\* C34: the number of references the module holds to a resource is the number of
\* the Animable, PropertyAnimator and Animator records that point to it
C34_ReferencesMatchRecords ==
    /\ \A r \in 1 .. NumControllers :
          module.resources[r].ref_count
            = LET PointsTo(a) == a.resource = r IN CountRecords(module.m_animators, PointsTo)
    /\ \A r \in 1 .. NumAnimations :
          module.animations[r]
            = LET PointsTo(a) == a = r
              IN CountRecords(module.m_animables, PointsTo)
                 + CountRecords(module.m_property_animators, PointsTo)

\* C34 witness: a controller that has loaded is held by one animator, and an
\* animation is held twice, a PropertyAnimator holding one
C34_Witness ==
    /\ \E r \in 1 .. NumControllers :
          /\ module.resources[r].ref_count = 1
          /\ module.resources[r].state = "READY"
    /\ \E r \in 1 .. NumAnimations : module.animations[r] = 2
    /\ module.m_property_animators # <<>> /\ module.m_property_animators[1] # 0

\* ---- properties of the time of an Animable --------------------------------------------
\* x modulo l, by counting up or down to the interval 0 .. l - 1
RECURSIVE MathMod(_, _)
MathMod(x, l) ==
    IF x < 0 THEN MathMod(x + l, l) ELSE IF x >= l THEN MathMod(x - l, l) ELSE x

C36_OutAssigned ==
    (call.name = "updateOut" /\ call.ticks > 0)
    => /\ ~call.root_motion.read_unassigned
       /\ (NothingToPlay(call.node) => call.root_motion.rm = IdentityMotion)

\* ---- liveness of the Group node -------------------------------------------------------
\* the Group at the root runs child cur with no crossfade going on, the guard of
\* cur is false and the guard of another selectable child is true
GroupShouldLeave(cur) ==
    /\ GroupIdleAt(cur)
    /\ ~eval(At(animator.resource.m_children, cur).condition, animator)
    /\ OtherSelectable(cur) # {}

\* C37: with a time_delta above 0 in every tick the Group does not stay for ever
\* on a child whose guard is false while the guard of another selectable child is
\* true and no crossfade is going on: it starts a transition away from the child,
\* also when the transition has an exit time and the child is a clip that is not
\* looped and has reached its end
C37_GroupLeaves ==
    /\ ~<>[]GroupShouldLeave(0)
    /\ ~<>[]GroupShouldLeave(1)

\* ---- the end of the crossfades ---------------------------------------------------------
\* C38: with a time_delta above 0 in every tick a crossfade of a Condition, a
\* Select or a Group node with blend length L ends after finitely many ticks, at
\* the latest in the first tick in which the time elapsed since its start is
\* above L: as long as it goes on, the time elapsed grows by the time_delta of
\* the tick and stays at or below L; and after a tick that leaves no crossfade
\* going on exactly one child of the node has been updated and is sampled
C38_CrossfadeEnds ==
    [][ \A k \in 1 .. 3 :
          (call.name = "crossfade" /\ call'.ticks # call.ticks /\ ~call'.failed)
          => /\ call'.time_delta > 0
             /\ (InCrossfade(call, k) /\ InCrossfade(call', k))
                  => /\ call'.elapsed[k] = call.elapsed[k] + call'.time_delta
                     /\ call'.elapsed[k] = call'.data[k][1].t
                     /\ call'.elapsed[k] <= call.blend_length
             /\ ~InCrossfade(call', k)
                  => (Len(call'.data[k]) = 2 /\ call'.posed[k] = 2)
      ]_vars

\* C38 witness: the crossfade of the Select has gone on for more than one tick and
\* has ended in the tick in which the time elapsed got above the blend length
C38_Witness ==
    /\ call.name = "crossfade" /\ ~call.failed
    /\ call.blend_length = MaxBlendLength
    /\ call.elapsed[2] > call.blend_length
    /\ call.elapsed[2] - call.time_delta > 1
    /\ ~InCrossfade(call, 2)

\* ---- properties of the local transform of a root ----------------------------------------
\* C39: a live entity with no parent, also one that has children and one that was
\* detached from its parent and kept its children, has a local transform that
\* equals its world transform
C39_RootLocalIsWorld ==
    ~crashed
    => \A e \in Live(world) :
          ~isValid(getParent(world, e))
             => getLocalTransform(world, e) = getTransform(world, e)

\* C40: setLocalPosition, setLocalRotation and setLocalTransform on a live entity
\* never fail the assertion of updateGlobalTransform, and on an entity with no
\* parent, with or without children, they do what setPosition, setRotation and
\* setTransform do
C40_SetLocalOnRoot ==
    ~crashed
    => \A e \in Live(world) :
          /\ \A pos \in 0 .. MaxInput :
                /\ ~setLocalPosition(world, e, pos).assert
                /\ ~isValid(getParent(world, e))
                     => setLocalPosition(world, e, pos).w = setPosition(world, e, pos).w
          /\ \A rot \in {1, -1} :
                /\ ~setLocalRotation(world, e, rot).assert
                /\ ~isValid(getParent(world, e))
                     => setLocalRotation(world, e, rot).w = setRotation(world, e, rot).w
          /\ \A transform \in InputTransforms :
                /\ ~setLocalTransform(world, e, transform).assert
                /\ ~isValid(getParent(world, e))
                     => setLocalTransform(world, e, transform).w
                           = setTransform(world, e, transform).w

====
